---------------------------- MODULE Spec2Model ----------------------------
(***************************************************************************)
(* The rate limiter of backend/src/rate_limiter.rs (RequestTracker,        *)
(* RateLimiter::new, RateLimiter::execute, calculate_backoff) and the way  *)
(* the import handler of backend/src/handlers.rs builds its provider       *)
(* client.  Durations and instants are whole numbers of clock units        *)
(* (milliseconds in calculate_backoff).                                    *)
(***************************************************************************)
EXTENDS Integers, Sequences, FiniteSets

\* ------------------------------------------------------------- bounds
NumTasks == 2
MaxTime  == 3
\* execute calls started in one behaviour: on a shared limiter, by the imports
MaxCalls == 3
MaxImportCalls == 5

Tasks    == 1..NumTasks
Limiters == 1..NumTasks
NoTask   == 0
NoLimiter == 0
\* The limiter every task calls through when one client is shared.
SharedLimiter == 1

ErrKinds == {"network", "status"}

\* ------------------------------------------------------------ helpers
Min(a, b) == IF a <= b THEN a ELSE b
Max(a, b) == IF a >= b THEN a ELSE b

RECURSIVE Pow(_, _)
Pow(b, e) == IF e = 0 THEN 1 ELSE b * Pow(b, e - 1)

\* ------------------------------------------------------ configuration
\* RateLimitConfig; backoff_multiplier (an f64) is the ratio mult_num/mult_den.
Config(mr, w, ib, mb, mn, md, retries) ==
    [max_requests |-> mr, window_duration |-> w, initial_backoff |-> ib,
     max_backoff |-> mb, mult_num |-> mn, mult_den |-> md, max_retries |-> retries]

\* The configurations a limiter is built from: limits below 4, limits of 4 and 8
\* (one and two concurrent slots), a limit above 40, whole and fractional
\* multipliers, zero to two retries.
Configs ==
    { Config(0,  2, 1, 3, 2, 1, 0),
      Config(2,  2, 1, 3, 2, 1, 1),
      Config(4,  2, 1, 3, 2, 1, 1),
      Config(4,  2, 1, 2, 3, 2, 2),
      Config(8,  2, 1, 3, 2, 1, 0),
      Config(44, 2, 1, 3, 2, 1, 0) }

\* spotify_config with its limit and durations scaled to the clock of the model
\* (4 requests per window of 2 instead of 100 per 60s; backoff 1, doubling, far
\* below its cap; 2 retries instead of 3, so that the last one ends by MaxTime).
ImportConfigs == { Config(4, 2, 1, 50, 2, 1, 2) }

\* One and two concurrent slots, one retry.
BatchConfigs == { Config(4, 2, 1, 3, 2, 1, 1), Config(8, 2, 1, 3, 2, 1, 1) }

VARIABLES
    cfg,        \* the RateLimitConfig every limiter is built from
    now,        \* the monotonic clock (Instant::now())
    requests,   \* per limiter: RequestTracker.requests
    permits,    \* per limiter: permits available in the semaphore
    lockHolder, \* per limiter: the task that holds the tracker mutex, or NoTask
    limiterOf,  \* per task: the limiter of the client it calls through
    pc,         \* per task: where its execute call stands
    permit,     \* per task: whether its _permit is alive
    attempt,    \* per task: the loop variable of execute
    wake,       \* per task: the deadline of the sleep it is in
    delay,      \* per task: the duration of the sleep it is in
    opStart,    \* per task: when the operation in flight was invoked
    invoked,    \* per task: invocations of request_fn in this call
    failed,     \* per task: failed invocations in this call
    outcome,    \* per task: the result of the last invocation
    ret,        \* per task: what execute returned
    calls,      \* execute calls started so far
    batch_requests, \* execute_batch: its argument requests, one operation each
    batch_size,     \* execute_batch: its argument batch_size
    results,        \* execute_batch: its local results
    bpc,            \* execute_batch: where the call stands
    chunkStart,     \* execute_batch: the operations before the chunk of the loop
    bwake,          \* execute_batch: the deadline of the pause it is in
    playlist,          \* the provider: the tracks of the playlist, in its order
    nodes,             \* the graph: its nodes, <<label, id>>
    edges,             \* the graph: its edges, <<type, from id, to id>>
    ipc,               \* per import: where import_spotify_data stands
    tracks,            \* per import: its local tracks
    track_index,       \* per import: the track of the loop, from 1
    apos,              \* per import: the position in track.artist_ids, from 1
    processed_artists, \* per import: its local processed_artists
    imported_tracks,   \* per import: its local imported_tracks
    imported_artists,  \* per import: its local imported_artists
    log,               \* per import: its provider fetches and graph writes so far
    began,             \* per import: the imports that had succeeded when it began
    catalog,    \* the provider: the items it lists, in its order
    limit,      \* get_playlist_tracks: its page size limit
    fault,      \* the provider: which request it answers badly, how, how often
    cop,        \* the client: the method called on it
    cpc,        \* the client: where the method stands
    offset,     \* get_playlist_tracks: its local offset
    item,       \* the client: the item of the loop over the items, from 1
    fetched,    \* the client: the tracks pushed so far (tracks, result_tracks)
    pages,      \* get_playlist_tracks: the offsets of the pages asked for so far
    reply,      \* the client: the response the last request returned to it
    failedFeat, \* the client: the items whose get_audio_features was Err
    track_names,      \* create_playlist_from_tracks: its argument track_names
    ypc,              \* create_playlist_from_tracks: where the call stands
    yindex,           \* create_playlist_from_tracks: the track name of the loops, from 1
    tracks_added,     \* create_playlist_from_tracks: its local tracks_added
    tracks_not_found, \* create_playlist_from_tracks: its local tracks_not_found
    youtcome,         \* create_playlist_from_tracks: how each track name so far ended
    ypauses,          \* create_playlist_from_tracks: the track names it slept after
    features,   \* the graph: the audio features of its Track nodes
    seed_ids,   \* get_similar_tracks: its argument track_ids
    sim_limit,  \* get_similar_tracks: its argument limit
    similar,    \* get_similar_tracks: the rows of its result
    spc,        \* get_similar_tracks: where the call stands
    playlist_url, \* import_spotify_data: request.playlist_url, a string of characters
    env_token,    \* the environment: whether SPOTIFY_ACCESS_TOKEN is set
    playlist_id,  \* import_spotify_data: what extract_playlist_id returned
    access_token, \* import_spotify_data: where its access_token came from
    exchanges,    \* import_spotify_data: its calls of get_access_token so far
    copies,     \* the graph store: the nodes it holds of each label and id
    links,      \* the graph store: the edges it holds of each type and pair of ids
    upc         \* per task: where its upserts stand

\* The state of the callers of execute, which no step of execute touches.
batchVars == <<batch_requests, batch_size, results, bpc, chunkStart, bwake>>
importVars == <<playlist, nodes, edges, ipc, tracks, track_index, apos,
                processed_artists, imported_tracks, imported_artists, log, began>>
clientVars == <<catalog, limit, fault, cop, cpc, offset, item, fetched, pages, reply,
                failedFeat>>
ytVars == <<track_names, ypc, yindex, tracks_added, tracks_not_found, youtcome,
            ypauses>>
simVars == <<features, seed_ids, sim_limit, similar, spc>>
headVars == <<playlist_url, env_token, playlist_id, access_token, exchanges>>
upsertVars == <<copies, links, upc>>
sideVars == <<headVars, upsertVars>>
restVars == <<clientVars, ytVars, simVars, sideVars>>
otherVars == <<batchVars, importVars, restVars>>

vars == <<cfg, now, requests, permits, lockHolder, limiterOf, pc, permit, attempt,
          wake, delay, opStart, invoked, failed, outcome, ret, calls, otherVars>>

\* ------------------------------------------------------ pure functions
\* RateLimiter::new: the number of permits of the semaphore.
max_concurrent(config) == Min(config.max_requests \div 4, 10)

\* The arithmetic of calculate_backoff is the one of f64. A finite f64 is held
\* as a significand m of at most MantissaBits bits with an exponent e, the
\* number m * 2^e (zero has no limb and e = 0), which is below 2^MaxExp and a
\* multiple of 2^-MinExp, the least subnormal; the others are the infinity
\* and NaN. No number here is negative. Durations are whole milliseconds.
MantissaBits == 53
MaxExp == 1024
MinExp == 1074
\* The bits of a u64.
U64Bits == 64

\* Numbers too long for an integer are sequences of limbs of LimbBits bits,
\* lowest limb first, the highest never 0; products of limbs stay in range.
LimbBits == 13
Limb == Pow(2, LimbBits)
Pow2 == [i \in 1..(LimbBits + 1) |-> Pow(2, i - 1)] \o <<>>
\* 2^i for i <= LimbBits.
P2(i) == Pow2[i + 1]

\* l without its high zero limbs.
Strip(l) ==
    LET nz == {i \in DOMAIN l : l[i] # 0}
    IN  IF nz = {} THEN <<>>
        ELSE SubSeq(l, 1, CHOOSE i \in nz : \A j \in nz : j <= i)

\* The limbs of an integer below 2^31.
Limbs(n) == Strip(<< n % Limb, (n \div Limb) % Limb, n \div (Limb * Limb) >>)

RECURSIVE SumSeq(_)
SumSeq(q) == IF q = <<>> THEN 0 ELSE Head(q) + SumSeq(Tail(q))

\* The integer below 2^31 with limbs l.
IntOf(l) == SumSeq([i \in DOMAIN l |-> l[i] * Pow(Limb, i - 1)] \o <<>>)

\* The number of bits of l, its k-th bit from below, and whether its k lowest
\* bits are all 0.
BitLen(l) ==
    IF l = <<>> THEN 0
    ELSE LimbBits * (Len(l) - 1)
            + Cardinality({i \in 1..LimbBits : l[Len(l)] >= P2(i - 1)})

BitAt(l, k) == (l[(k - 1) \div LimbBits + 1] \div P2((k - 1) % LimbBits)) % 2

LowZero(l, k) ==
    /\ \A i \in 1..(k \div LimbBits) : l[i] = 0
    /\ k % LimbBits = 0 \/ l[k \div LimbBits + 1] % P2(k % LimbBits) = 0

\* l \div 2^k and l * 2^k.
ShiftRight(l, k) ==
    LET q == k \div LimbBits
        s == k % LimbBits
    IN  Strip([i \in 1..(Len(l) - q) |->
                  (l[i + q] \div P2(s))
                      + (IF i + q < Len(l)
                         THEN (l[i + q + 1] % P2(s)) * P2(LimbBits - s)
                         ELSE 0)] \o <<>>)

ShiftLeft(l, k) ==
    LET q == k \div LimbBits
        s == k % LimbBits
    IN  IF l = <<>> THEN <<>>
        ELSE Strip([i \in 1..q |-> 0]
                   \o [i \in 1..(Len(l) + 1) |->
                          (IF i <= Len(l) THEN (l[i] % P2(LimbBits - s)) * P2(s)
                           ELSE 0)
                              + (IF i > 1 THEN l[i - 1] \div P2(LimbBits - s) ELSE 0)])

\* l + 1.
Succ(l) ==
    LET room == {i \in DOMAIN l : l[i] # Limb - 1} IN
    IF room = {} THEN [i \in 1..(Len(l) + 1) |-> IF i = Len(l) + 1 THEN 1 ELSE 0] \o <<>>
    ELSE LET z == CHOOSE i \in room : \A j \in room : i <= j
         IN  [i \in DOMAIN l |-> IF i < z THEN 0 ELSE IF i = z THEN l[i] + 1 ELSE l[i]] \o <<>>

\* The limbs of the number whose columns (sums of limb products) are cols,
\* with the carry c.
RECURSIVE Carry(_, _)
Carry(cols, c) ==
    IF cols = <<>> THEN (IF c = 0 THEN <<>> ELSE <<c % Limb>> \o Carry(<<>>, c \div Limb))
    ELSE <<(Head(cols) + c) % Limb>> \o Carry(Tail(cols), (Head(cols) + c) \div Limb)

\* x * y.
MulLimbs(x, y) ==
    IF x = <<>> \/ y = <<>> THEN <<>>
    ELSE Carry([k \in 1..(Len(x) + Len(y) - 1) |->
                   SumSeq([i \in 1..(Min(k, Len(x)) - Max(1, k + 1 - Len(y)) + 1) |->
                              x[Max(1, k + 1 - Len(y)) + i - 1]
                                  * y[k + 1 - (Max(1, k + 1 - Len(y)) + i - 1)]]
                              \o <<>>)] \o <<>>, 0)

Finite(m, e) == [kind |-> "finite", m |-> m, e |-> IF m = <<>> THEN 0 ELSE e]
Infinity == [kind |-> "inf", m |-> <<>>, e |-> 0]
NaN == [kind |-> "nan", m |-> <<>>, e |-> 0]

\* The f64 nearest to x * 2^e, ties to the even significand: the k lowest
\* bits of x are rounded off, those beyond MantissaBits and those below the
\* least subnormal; a number that rounds to 2^MaxExp or more is the infinity.
f64(x, e) ==
    LET k == Max(BitLen(x) - MantissaBits, -MinExp - e)
        kept == ShiftRight(x, k)
        up == /\ k <= BitLen(x)
              /\ BitAt(x, k) = 1
              /\ (kept # <<>> /\ kept[1] % 2 = 1) \/ ~LowZero(x, k - 1)
        m == IF k <= 0 THEN x ELSE IF up THEN Succ(kept) ELSE kept
    IN  IF m # <<>> /\ BitLen(m) + e + Max(k, 0) > MaxExp THEN Infinity
        ELSE Finite(m, e + Max(k, 0))

\* The binary expansion of a quotient whose limbs so far are x * 2^e and whose
\* remainder is r / d * 2^e, to two bits more than an f64 holds at least, and
\* one last limb for what is left of it.
RECURSIVE Expand(_, _, _, _)
Expand(x, e, r, d) ==
    IF r = 0 THEN [m |-> x, e |-> e]
    ELSE IF BitLen(x) >= MantissaBits + 2 THEN [m |-> <<1>> \o x, e |-> e - LimbBits]
    ELSE LET q == (r * Limb) \div d
         IN  Expand(IF x = <<>> /\ q = 0 THEN <<>> ELSE <<q>> \o x,
                    e - LimbBits, (r * Limb) % d, d)

\* config.backoff_multiplier: the f64 that the literal mult_num / mult_den is.
backoff_multiplier(mult_num, mult_den) ==
    LET v == Expand(Limbs(mult_num \div mult_den), 0, mult_num % mult_den, mult_den)
    IN  f64(v.m, v.e)

\* The product of two f64, rounded: NaN with a NaN and for 0 * infinity.
mul(a, b) ==
    IF a.kind = "nan" \/ b.kind = "nan" THEN NaN
    ELSE IF a.kind = "inf" \/ b.kind = "inf"
         THEN (IF a = Finite(<<>>, 0) \/ b = Finite(<<>>, 0) THEN NaN ELSE Infinity)
    ELSE f64(MulLimbs(a.m, b.m), a.e + b.e)

\* f64::powi for b >= 0 (__powidf2): r = 1; loop { if b & 1 != 0 { r *= a }
\* b /= 2; if b == 0 { break } a *= a }, every product rounded. s holds the
\* loop's a, b and r; one call is one turn of the loop.
RECURSIVE powi_loop(_)
powi_loop(s) ==
    LET s1 == [r |-> IF s.b % 2 = 1 THEN mul(s.r, s.a) ELSE s.r,
               b |-> s.b \div 2,
               a |-> IF s.b \div 2 = 0 THEN s.a ELSE mul(s.a, s.a)]
    IN  IF s1.b = 0 THEN s1.r ELSE powi_loop(s1)

powi(a, b) == powi_loop([a |-> a, b |-> b, r |-> Finite(<<1>>, 0)])

\* u64::MAX, in limbs.
u64_MAX ==
    [i \in 1..(U64Bits \div LimbBits) |-> Limb - 1]
        \o (IF U64Bits % LimbBits = 0 THEN <<>> ELSE << P2(U64Bits % LimbBits) - 1 >>)

\* backoff_ms as u64, in limbs: the f64 truncated; 0 for NaN, u64::MAX for
\* the infinity and for what is above it.
as_u64(v) ==
    IF v.kind = "nan" THEN <<>>
    ELSE IF v.kind = "inf" \/ BitLen(v.m) + v.e > U64Bits THEN u64_MAX
    ELSE IF v.e >= 0 THEN ShiftLeft(v.m, v.e)
    ELSE ShiftRight(v.m, -v.e)

\* initial.as_millis() as f64 * multiplier.powi(attempt as i32), as u64.
backoff_ms(initial, mult_num, mult_den, a) ==
    as_u64(mul(f64(Limbs(initial), 0), powi(backoff_multiplier(mult_num, mult_den), a)))

\* calculate_backoff: Duration::from_millis(backoff_ms as u64), then min with
\* max_duration (a product of more bits than max_duration has is above it).
calculate_backoff(initial, max_duration, mult_num, mult_den, a) ==
    LET ms == backoff_ms(initial, mult_num, mult_den, a)
    IN  IF BitLen(ms) > BitLen(Limbs(max_duration)) THEN max_duration
        ELSE Min(IntOf(ms), max_duration)

\* The delay execute asks calculate_backoff for after failed attempt a, for
\* each configuration a limiter is built from.
backoff_duration ==
    [config \in Configs \cup ImportConfigs \cup BatchConfigs |->
        [a \in 0..config.max_retries |->
            calculate_backoff(config.initial_backoff, config.max_backoff,
                              config.mult_num, config.mult_den, a)]]

\* A purge that tests the front once (if) instead of looping (while).
PurgeOnce(reqs, t, window) ==
    IF reqs # <<>> /\ t - Head(reqs) > window
    THEN Tail(reqs)
    ELSE reqs

\* The purge loop of check_rate_limit.
RECURSIVE Purge(_, _, _)
Purge(reqs, t, window) ==
    IF reqs # <<>> /\ t - Head(reqs) > window
    THEN Purge(Tail(reqs), t, window)
    ELSE reqs

\* check_rate_limit deciding on the queue as it was before the purge.
check_rate_limit_unpurged(reqs, t, config) ==
    LET purged == Purge(reqs, t, config.window_duration) IN
    IF Len(reqs) >= config.max_requests /\ reqs # <<>>
    THEN [requests |-> purged, wait |-> TRUE,
          delay |-> config.window_duration - (t - Head(reqs))]
    ELSE [requests |-> purged, wait |-> FALSE, delay |-> 0]

\* check_rate_limit: the purged queue and the Option<Duration> it returns.
check_rate_limit(reqs, t, config) ==
    LET purged == Purge(reqs, t, config.window_duration) IN
    IF Len(purged) >= config.max_requests /\ purged # <<>>
    THEN [requests |-> purged, wait |-> TRUE,
          delay |-> config.window_duration - (t - Head(purged))]
    ELSE [requests |-> purged, wait |-> FALSE, delay |-> 0]

\* record_request with push_front in place of push_back.
record_request_front(reqs, t) == <<t>> \o reqs

\* record_request.
record_request(reqs, t) == Append(reqs, t)

\* ------------------------------------------------------------- states
Suspended == {"acquire", "cfg_lock", "check_lock", "window_wait", "operation",
              "record_lock", "backoff"}
InProgress == Suspended \cup {"cfg_read", "check", "record"}

\* The trackers a limiter is found with: empty, as RequestTracker::new leaves it,
\* or one short of the limit, as max_requests - 1 calls that succeeded at once
\* leave it (no call completes on a limiter without a permit).
Trackers(config) ==
    {<<>>} \cup
    (IF max_concurrent(config) >= 1 /\ config.max_requests >= 2
     THEN {[i \in 1..(config.max_requests - 1) |-> 0]}
     ELSE {})

TaskInit(p, lim) ==
    /\ limiterOf = [t \in Tasks |-> lim]
    /\ pc = [t \in Tasks |-> p]
    /\ permit = [t \in Tasks |-> FALSE]
    /\ attempt = [t \in Tasks |-> 0]
    /\ wake = [t \in Tasks |-> 0]
    /\ delay = [t \in Tasks |-> 0]
    /\ opStart = [t \in Tasks |-> 0]
    /\ invoked = [t \in Tasks |-> 0]
    /\ failed = [t \in Tasks |-> 0]
    /\ outcome = [t \in Tasks |-> "none"]
    /\ ret = [t \in Tasks |-> "none"]
    /\ calls = 0

LimiterInit ==
    /\ cfg \in Configs
    /\ now = 0
    /\ \E q \in Trackers(cfg) :
          requests = [l \in Limiters |-> IF l = SharedLimiter THEN q ELSE <<>>]
    /\ permits = [l \in Limiters |-> max_concurrent(cfg)]
    /\ lockHolder = [l \in Limiters |-> NoTask]

\* No execute_batch call is made.
NoBatch ==
    /\ batch_requests = <<>>
    /\ batch_size = 1
    /\ results = <<>>
    /\ bpc = "none"
    /\ chunkStart = 0
    /\ bwake = 0

\* The locals of an import before its loop.
ImportLocalsInit ==
    /\ tracks = [r \in Tasks |-> <<>>]
    /\ track_index = [r \in Tasks |-> 0]
    /\ apos = [r \in Tasks |-> 0]
    /\ processed_artists = [r \in Tasks |-> {}]
    /\ imported_tracks = [r \in Tasks |-> 0]
    /\ imported_artists = [r \in Tasks |-> 0]
    /\ log = [r \in Tasks |-> <<>>]
    /\ began = [r \in Tasks |-> {}]

\* No import handler runs, the graph is empty.
NoImport ==
    /\ playlist = <<>>
    /\ nodes = {}
    /\ edges = {}
    /\ ipc = [r \in Tasks |-> "none"]
    /\ ImportLocalsInit

\* The provider answers every request well.
NoFault == [call |-> 0, kind |-> "success", times |-> 0]

\* No method of a SpotifyClient is called.
NoClient ==
    /\ catalog = <<>>
    /\ limit = 1
    /\ fault = NoFault
    /\ cop = "none"
    /\ cpc = "none"
    /\ offset = 0
    /\ item = 0
    /\ fetched = <<>>
    /\ pages = <<>>
    /\ reply = "none"
    /\ failedFeat = {}

\* No playlist is built on the video provider.
NoYoutube ==
    /\ track_names = <<>>
    /\ ypc = "none"
    /\ yindex = 0
    /\ tracks_added = 0
    /\ tracks_not_found = <<>>
    /\ youtcome = <<>>
    /\ ypauses = <<>>

\* No similarity query is made; no track of the graph has features.
NoSimilar ==
    /\ features = <<>>
    /\ seed_ids = {}
    /\ sim_limit = 0
    /\ similar = <<>>
    /\ spc = "none"

\* No import request is being resolved.
NoHead ==
    /\ playlist_url = <<>>
    /\ env_token = FALSE
    /\ playlist_id = <<>>
    /\ access_token = "none"
    /\ exchanges = 0

\* No upsert runs against the graph store.
NoUpsert ==
    /\ copies = <<>>
    /\ links = <<>>
    /\ upc = [t \in Tasks |-> "none"]

NoSide == NoHead /\ NoUpsert

\* What the callers of the later sections leave alone.
NoRest == NoClient /\ NoYoutube /\ NoSimilar /\ NoSide

\* One RateLimiter shared by every task (callers of one client).
Init == LimiterInit /\ TaskInit("idle", SharedLimiter) /\ NoBatch /\ NoImport /\ NoRest

\* ------------------------------------------------------------ actions
\* A caller invokes execute.
BeginExecute(t) ==
    /\ limiterOf[t] # NoLimiter
    /\ calls' = calls + 1
    /\ pc' = [pc EXCEPT ![t] = "acquire"]
    /\ attempt' = [attempt EXCEPT ![t] = 0]
    /\ invoked' = [invoked EXCEPT ![t] = 0]
    /\ failed' = [failed EXCEPT ![t] = 0]
    /\ outcome' = [outcome EXCEPT ![t] = "none"]
    /\ ret' = [ret EXCEPT ![t] = "none"]
    /\ UNCHANGED <<otherVars, cfg, now, requests, permits, lockHolder, limiterOf, permit,
                   wake, delay, opStart>>

\* acquire that does not wait for a permit.
AcquireNoWait(t) ==
    /\ pc[t] = "acquire"
    /\ permits' = [permits EXCEPT ![limiterOf[t]] = @ - 1]
    /\ permit' = [permit EXCEPT ![t] = TRUE]
    /\ pc' = [pc EXCEPT ![t] = "cfg_lock"]
    /\ UNCHANGED <<otherVars, cfg, now, requests, lockHolder, limiterOf, attempt, wake, delay,
                   opStart, invoked, failed, outcome, ret, calls>>

\* let _permit = self.semaphore.acquire().await.unwrap();
Acquire(t) ==
    /\ pc[t] = "acquire"
    /\ permits[limiterOf[t]] > 0
    /\ permits' = [permits EXCEPT ![limiterOf[t]] = @ - 1]
    /\ permit' = [permit EXCEPT ![t] = TRUE]
    /\ pc' = [pc EXCEPT ![t] = "cfg_lock"]
    /\ UNCHANGED <<otherVars, cfg, now, requests, lockHolder, limiterOf, attempt, wake, delay,
                   opStart, invoked, failed, outcome, ret, calls>>

\* self.tracker.lock().await at any of its three places.
Lock(t, from, to) ==
    /\ pc[t] = from
    /\ lockHolder[limiterOf[t]] = NoTask
    /\ lockHolder' = [lockHolder EXCEPT ![limiterOf[t]] = t]
    /\ pc' = [pc EXCEPT ![t] = to]
    /\ UNCHANGED <<otherVars, cfg, now, requests, permits, limiterOf, permit, attempt, wake,
                   delay, opStart, invoked, failed, outcome, ret, calls>>

LockConfig(t) == Lock(t, "cfg_lock", "cfg_read")
LockCheck(t)  == Lock(t, "check_lock", "check")
LockRecord(t) == Lock(t, "record_lock", "record")

\* tracker.config.clone(), the guard dropped at the end of the block.
ReadConfig(t) ==
    /\ pc[t] = "cfg_read"
    /\ lockHolder[limiterOf[t]] = t
    /\ lockHolder' = [lockHolder EXCEPT ![limiterOf[t]] = NoTask]
    /\ pc' = [pc EXCEPT ![t] = "check_lock"]
    /\ UNCHANGED <<otherVars, cfg, now, requests, permits, limiterOf, permit, attempt, wake,
                   delay, opStart, invoked, failed, outcome, ret, calls>>

\* The admission block without drop(tracker): the guard lives through the sleep.
CheckRateLimitSleepLocked(t) ==
    LET l == limiterOf[t]
        r == check_rate_limit(requests[l], now, cfg)
    IN  /\ pc[t] = "check"
        /\ lockHolder[l] = t
        /\ requests' = [requests EXCEPT ![l] = r.requests]
        /\ IF r.wait
           THEN /\ pc' = [pc EXCEPT ![t] = "window_wait"]
                /\ delay' = [delay EXCEPT ![t] = r.delay]
                /\ wake' = [wake EXCEPT ![t] = now + r.delay]
                /\ UNCHANGED <<opStart, invoked, lockHolder>>
           ELSE /\ pc' = [pc EXCEPT ![t] = "operation"]
                /\ opStart' = [opStart EXCEPT ![t] = now]
                /\ invoked' = [invoked EXCEPT ![t] = @ + 1]
                /\ lockHolder' = [lockHolder EXCEPT ![l] = NoTask]
                /\ UNCHANGED <<delay, wake>>
        /\ UNCHANGED <<otherVars, cfg, now, permits, limiterOf, permit, attempt, failed,
                       outcome, ret, calls>>

\* The admission block: check_rate_limit under the lock, the guard dropped, then
\* either sleep(delay) or the invocation of request_fn.
CheckRateLimit(t) ==
    LET l == limiterOf[t]
        r == check_rate_limit(requests[l], now, cfg)
    IN  /\ pc[t] = "check"
        /\ lockHolder[l] = t
        /\ requests' = [requests EXCEPT ![l] = r.requests]
        /\ lockHolder' = [lockHolder EXCEPT ![l] = NoTask]
        /\ IF r.wait
           THEN /\ pc' = [pc EXCEPT ![t] = "window_wait"]
                /\ delay' = [delay EXCEPT ![t] = r.delay]
                /\ wake' = [wake EXCEPT ![t] = now + r.delay]
                /\ UNCHANGED <<opStart, invoked>>
           ELSE /\ pc' = [pc EXCEPT ![t] = "operation"]
                /\ opStart' = [opStart EXCEPT ![t] = now]
                /\ invoked' = [invoked EXCEPT ![t] = @ + 1]
                /\ UNCHANGED <<delay, wake>>
        /\ UNCHANGED <<otherVars, cfg, now, permits, limiterOf, permit, attempt, failed,
                       outcome, ret, calls>>

\* sleep(delay) is over: request_fn is invoked.
WakeWindow(t) ==
    /\ pc[t] = "window_wait"
    /\ now >= wake[t]
    /\ pc' = [pc EXCEPT ![t] = "operation"]
    /\ opStart' = [opStart EXCEPT ![t] = now]
    /\ invoked' = [invoked EXCEPT ![t] = @ + 1]
    /\ wake' = [wake EXCEPT ![t] = 0]
    /\ delay' = [delay EXCEPT ![t] = 0]
    /\ UNCHANGED <<otherVars, cfg, now, requests, permits, lockHolder, limiterOf, permit,
                   attempt, failed, outcome, ret, calls>>

\* request_fn().await is Ok: the call goes on to lock the tracker.
OperationOk(t) ==
    /\ pc[t] = "operation"
    /\ outcome' = [outcome EXCEPT ![t] = "ok"]
    /\ opStart' = [opStart EXCEPT ![t] = 0]
    /\ pc' = [pc EXCEPT ![t] = "record_lock"]
    /\ UNCHANGED <<otherVars, cfg, now, requests, permits, lockHolder, limiterOf, permit,
                   attempt, wake, delay, invoked, failed, ret, calls>>

\* tracker.record_request(); return Ok(result): the guard and _permit drop.
RecordAndReturn(t) ==
    LET l == limiterOf[t] IN
    /\ pc[t] = "record"
    /\ lockHolder[l] = t
    /\ requests' = [requests EXCEPT ![l] = record_request(@, now)]
    /\ lockHolder' = [lockHolder EXCEPT ![l] = NoTask]
    /\ permits' = [permits EXCEPT ![l] = @ + 1]
    /\ permit' = [permit EXCEPT ![t] = FALSE]
    /\ ret' = [ret EXCEPT ![t] = "Ok"]
    /\ pc' = [pc EXCEPT ![t] = "done"]
    /\ UNCHANGED <<otherVars, cfg, now, limiterOf, attempt, wake, delay, opStart, invoked,
                   failed, outcome, calls>>

\* A retry that gives its permit back for the time of the backoff.
OperationErrRetryReleasing(t, e) ==
    LET d == backoff_duration[cfg][attempt[t]]
    IN  /\ pc[t] = "operation"
        /\ attempt[t] < cfg.max_retries
        /\ outcome' = [outcome EXCEPT ![t] = e]
        /\ failed' = [failed EXCEPT ![t] = @ + 1]
        /\ opStart' = [opStart EXCEPT ![t] = 0]
        /\ delay' = [delay EXCEPT ![t] = d]
        /\ wake' = [wake EXCEPT ![t] = now + d]
        /\ permits' = [permits EXCEPT ![limiterOf[t]] = @ + 1]
        /\ permit' = [permit EXCEPT ![t] = FALSE]
        /\ pc' = [pc EXCEPT ![t] = "backoff"]
        /\ UNCHANGED <<otherVars, cfg, now, requests, lockHolder, limiterOf, attempt, invoked,
                       ret, calls>>

\* request_fn().await is Err(e) with attempt < max_retries: sleep(backoff).
OperationErrRetry(t, e) ==
    LET d == backoff_duration[cfg][attempt[t]]
    IN  /\ pc[t] = "operation"
        /\ attempt[t] < cfg.max_retries
        /\ outcome' = [outcome EXCEPT ![t] = e]
        /\ failed' = [failed EXCEPT ![t] = @ + 1]
        /\ opStart' = [opStart EXCEPT ![t] = 0]
        /\ delay' = [delay EXCEPT ![t] = d]
        /\ wake' = [wake EXCEPT ![t] = now + d]
        /\ pc' = [pc EXCEPT ![t] = "backoff"]
        /\ UNCHANGED <<otherVars, cfg, now, requests, permits, lockHolder, limiterOf, permit,
                       attempt, invoked, ret, calls>>

\* An error returned at once, whatever the attempt.
OperationErrNoRetry(t, e) ==
    /\ pc[t] = "operation"
    /\ outcome' = [outcome EXCEPT ![t] = e]
    /\ failed' = [failed EXCEPT ![t] = @ + 1]
    /\ opStart' = [opStart EXCEPT ![t] = 0]
    /\ permits' = [permits EXCEPT ![limiterOf[t]] = @ + 1]
    /\ permit' = [permit EXCEPT ![t] = FALSE]
    /\ ret' = [ret EXCEPT ![t] = e]
    /\ pc' = [pc EXCEPT ![t] = "done"]
    /\ UNCHANGED <<otherVars, cfg, now, requests, lockHolder, limiterOf, attempt, wake, delay,
                   invoked, calls>>

\* request_fn().await is Err(e) on the last attempt: return Err(e), _permit drops.
OperationErrFinal(t, e) ==
    /\ pc[t] = "operation"
    /\ ~(attempt[t] < cfg.max_retries)
    /\ outcome' = [outcome EXCEPT ![t] = e]
    /\ failed' = [failed EXCEPT ![t] = @ + 1]
    /\ opStart' = [opStart EXCEPT ![t] = 0]
    /\ permits' = [permits EXCEPT ![limiterOf[t]] = @ + 1]
    /\ permit' = [permit EXCEPT ![t] = FALSE]
    /\ ret' = [ret EXCEPT ![t] = e]
    /\ pc' = [pc EXCEPT ![t] = "done"]
    /\ UNCHANGED <<otherVars, cfg, now, requests, lockHolder, limiterOf, attempt, wake, delay,
                   invoked, calls>>

\* sleep(backoff_duration) is over: the loop takes its next attempt.
WakeBackoff(t) ==
    /\ pc[t] = "backoff"
    /\ now >= wake[t]
    /\ attempt' = [attempt EXCEPT ![t] = @ + 1]
    /\ wake' = [wake EXCEPT ![t] = 0]
    /\ delay' = [delay EXCEPT ![t] = 0]
    /\ pc' = [pc EXCEPT ![t] = "check_lock"]
    /\ UNCHANGED <<otherVars, cfg, now, requests, permits, lockHolder, limiterOf, permit,
                   opStart, invoked, failed, outcome, ret, calls>>

\* A drop that forgets the permit instead of releasing it.
AbandonLeakingPermit(t) ==
    /\ pc[t] \in {"acquire", "cfg_lock", "check_lock", "window_wait", "operation",
                  "record_lock", "backoff"}
    /\ pc' = [pc EXCEPT ![t] = "dropped"]
    /\ permit' = [permit EXCEPT ![t] = FALSE]
    /\ wake' = [wake EXCEPT ![t] = 0]
    /\ delay' = [delay EXCEPT ![t] = 0]
    /\ opStart' = [opStart EXCEPT ![t] = 0]
    /\ UNCHANGED <<otherVars, cfg, now, requests, permits, lockHolder, limiterOf, attempt,
                   invoked, failed, outcome, ret, calls>>

\* The future of execute is dropped at an await (a caller-side timeout): its
\* locals drop, _permit among them.
Abandon(t) ==
    /\ pc[t] \in Suspended
    /\ pc' = [pc EXCEPT ![t] = "dropped"]
    /\ permits' = [permits EXCEPT ![limiterOf[t]] = IF permit[t] THEN @ + 1 ELSE @]
    /\ permit' = [permit EXCEPT ![t] = FALSE]
    /\ wake' = [wake EXCEPT ![t] = 0]
    /\ delay' = [delay EXCEPT ![t] = 0]
    /\ opStart' = [opStart EXCEPT ![t] = 0]
    /\ UNCHANGED <<otherVars, cfg, now, requests, lockHolder, limiterOf, attempt, invoked,
                   failed, outcome, ret, calls>>

\* The clock advances.
Tick ==
    /\ now < MaxTime
    /\ now' = now + 1
    /\ UNCHANGED <<otherVars, cfg, requests, permits, lockHolder, limiterOf, pc, permit,
                   attempt, wake, delay, opStart, invoked, failed, outcome, ret,
                   calls>>

\* A caller that shares the limiter calls execute, again after a call that
\* returned or was dropped.
StartCall(t) ==
    /\ pc[t] \in {"idle", "done", "dropped"}
    /\ calls < MaxCalls
    /\ BeginExecute(t)

Execute(t) ==
    \/ Acquire(t)
    \/ LockConfig(t)
    \/ ReadConfig(t)
    \/ LockCheck(t)
    \/ CheckRateLimit(t)
    \/ WakeWindow(t)
    \/ OperationOk(t)
    \/ LockRecord(t)
    \/ RecordAndReturn(t)
    \/ \E e \in ErrKinds : OperationErrRetry(t, e)
    \/ \E e \in ErrKinds : OperationErrFinal(t, e)
    \/ WakeBackoff(t)
    \/ Abandon(t)

Next == (\E t \in Tasks : StartCall(t) \/ Execute(t)) \/ Tick

Spec == Init /\ [][Next]_vars

\* ------------------------------------------------ concurrent imports
\* import_spotify_data: every handler invocation builds its own client with
\* SpotifyClient::new(), and so its own RateLimiter.
ImportStart(t) ==
    /\ pc[t] = "noclient"
    /\ limiterOf' = [limiterOf EXCEPT ![t] = t]
    /\ requests' = [requests EXCEPT ![t] = <<>>]
    /\ permits' = [permits EXCEPT ![t] = max_concurrent(cfg)]
    /\ lockHolder' = [lockHolder EXCEPT ![t] = NoTask]
    /\ pc' = [pc EXCEPT ![t] = "idle"]
    /\ UNCHANGED <<otherVars, cfg, now, permit, attempt, wake, delay, opStart, invoked,
                   failed, outcome, ret, calls>>

\* The import sends its next provider request through its client, one after
\* the other (get_playlist_tracks, get_audio_features, get_artist).
ImportCall(t) ==
    /\ pc[t] \in {"idle", "done"}
    /\ calls < MaxImportCalls
    /\ BeginExecute(t)

InitImports ==
    /\ cfg \in ImportConfigs
    /\ now = 0
    /\ requests = [l \in Limiters |-> <<>>]
    /\ permits = [l \in Limiters |-> 0]
    /\ lockHolder = [l \in Limiters |-> NoTask]
    /\ TaskInit("noclient", NoLimiter)
    /\ NoBatch
    /\ NoImport
    /\ NoRest

NextImports ==
    (\E t \in Tasks : ImportStart(t) \/ ImportCall(t) \/ Execute(t)) \/ Tick

SpecImports == InitImports /\ [][NextImports]_vars


\* ------------------------------------------------------ execute_batch
\* Operations handed to execute_batch in one call, and the clock of a batch.
MaxOps == 3
MaxBatchTime == 4

\* sleep(Duration::from_millis(100)) between chunks, in clock units.
BatchPause == 1

\* What an operation (a closure called once per attempt) does every time it is
\* called: it succeeds, or it fails with its error.
OpKinds == {"ok"} \cup ErrKinds

\* What execute returns for an operation of kind k.
OutcomeOf(k) == IF k = "ok" THEN "Ok" ELSE k

InitBatch ==
    /\ cfg \in BatchConfigs
    /\ now = 0
    /\ \E q \in Trackers(cfg) :
          requests = [l \in Limiters |-> IF l = SharedLimiter THEN q ELSE <<>>]
    /\ permits = [l \in Limiters |-> max_concurrent(cfg)]
    /\ lockHolder = [l \in Limiters |-> NoTask]
    /\ TaskInit("idle", SharedLimiter)
    /\ batch_requests \in UNION {[1..n -> OpKinds] : n \in 0..MaxOps}
    /\ batch_size \in 1..NumTasks
    /\ results = <<>>
    /\ bpc = "loop"
    /\ chunkStart = 0
    /\ bwake = 0
    /\ NoImport
    /\ NoRest

\* requests.chunks(batch_size): the length of the chunk of the loop, whose
\* operation number t is the one future t runs.
ChunkLen == Min(batch_size, Len(batch_requests) - chunkStart)
OpOf(t) == chunkStart + t

\* for batch in requests.chunks(batch_size): the futures of the next chunk are
\* built; none has run yet.
NextChunk ==
    /\ bpc = "loop"
    /\ chunkStart < Len(batch_requests)
    /\ bpc' = "join"
    /\ UNCHANGED <<cfg, now, requests, permits, lockHolder, limiterOf, pc, permit,
                   attempt, wake, delay, opStart, invoked, failed, outcome, ret,
                   calls, batch_requests, batch_size, results, chunkStart, bwake,
                   importVars, restVars>>

\* Future t is one of the chunk that join_all is awaiting.
InChunk(t) == bpc = "join" /\ t <= ChunkLen

\* join_all polls its futures in their order: future t enters execute.
BatchPoll(t) ==
    /\ InChunk(t)
    /\ pc[t] = "idle"
    /\ \A u \in 1..(t - 1) : pc[u] # "idle"
    /\ BeginExecute(t)

\* A step of the execute call of future t; its operation does what its kind says.
BatchExecute(t) ==
    \/ InChunk(t) /\ Acquire(t)
    \/ InChunk(t) /\ LockConfig(t)
    \/ InChunk(t) /\ ReadConfig(t)
    \/ InChunk(t) /\ LockCheck(t)
    \/ InChunk(t) /\ CheckRateLimit(t)
    \/ InChunk(t) /\ WakeWindow(t)
    \/ InChunk(t) /\ batch_requests[OpOf(t)] = "ok" /\ OperationOk(t)
    \/ InChunk(t) /\ LockRecord(t)
    \/ InChunk(t) /\ RecordAndReturn(t)
    \/ \E e \in ErrKinds :
          InChunk(t) /\ batch_requests[OpOf(t)] = e /\ OperationErrRetry(t, e)
    \/ \E e \in ErrKinds :
          InChunk(t) /\ batch_requests[OpOf(t)] = e /\ OperationErrFinal(t, e)
    \/ InChunk(t) /\ WakeBackoff(t)

\* join_all that yields the results in the order the futures completed in,
\* which may be any.
JoinAllAsCompleted ==
    /\ bpc = "join"
    /\ \A t \in 1..ChunkLen : pc[t] = "done"
    /\ \E f \in [1..ChunkLen -> 1..ChunkLen] :
          /\ \A t, u \in 1..ChunkLen : f[t] = f[u] => t = u
          /\ results' = results \o [t \in 1..ChunkLen |-> ret[f[t]]]
    /\ chunkStart' = chunkStart + ChunkLen
    /\ pc' = [t \in Tasks |-> "idle"]
    /\ IF Len(results) + ChunkLen < Len(batch_requests)
       THEN bpc' = "pause" /\ bwake' = now + BatchPause
       ELSE bpc' = "loop" /\ bwake' = bwake
    /\ UNCHANGED <<cfg, now, requests, permits, lockHolder, limiterOf, permit,
                   attempt, wake, delay, opStart, invoked, failed, outcome, ret,
                   calls, batch_requests, batch_size, importVars,
                   restVars>>

\* A loop that ends at the first chunk that holds an error.
JoinAllStopOnError ==
    /\ bpc = "join"
    /\ \A t \in 1..ChunkLen : pc[t] = "done"
    /\ results' = results \o [t \in 1..ChunkLen |-> ret[t]]
    /\ chunkStart' = chunkStart + ChunkLen
    /\ pc' = [t \in Tasks |-> "idle"]
    /\ IF \E t \in 1..ChunkLen : ret[t] \in ErrKinds
       THEN bpc' = "returned" /\ bwake' = bwake
       ELSE IF Len(results) + ChunkLen < Len(batch_requests)
            THEN bpc' = "pause" /\ bwake' = now + BatchPause
            ELSE bpc' = "loop" /\ bwake' = bwake
    /\ UNCHANGED <<cfg, now, requests, permits, lockHolder, limiterOf, permit,
                   attempt, wake, delay, opStart, invoked, failed, outcome, ret,
                   calls, batch_requests, batch_size, importVars,
                   restVars>>

\* A loop that sleeps after every chunk, the last one too.
JoinAllPausing ==
    /\ bpc = "join"
    /\ \A t \in 1..ChunkLen : pc[t] = "done"
    /\ results' = results \o [t \in 1..ChunkLen |-> ret[t]]
    /\ chunkStart' = chunkStart + ChunkLen
    /\ pc' = [t \in Tasks |-> "idle"]
    /\ bpc' = "pause"
    /\ bwake' = now + BatchPause
    /\ UNCHANGED <<cfg, now, requests, permits, lockHolder, limiterOf, permit,
                   attempt, wake, delay, opStart, invoked, failed, outcome, ret,
                   calls, batch_requests, batch_size, importVars,
                   restVars>>

\* join_all(batch_futures).await is ready once every future of the chunk is:
\* results.extend(batch_results), in the order of the futures; then the pause
\* if results.len() < requests.len().
JoinAll ==
    /\ bpc = "join"
    /\ \A t \in 1..ChunkLen : pc[t] = "done"
    /\ results' = results \o [t \in 1..ChunkLen |-> ret[t]]
    /\ chunkStart' = chunkStart + ChunkLen
    /\ pc' = [t \in Tasks |-> "idle"]
    /\ IF Len(results) + ChunkLen < Len(batch_requests)
       THEN bpc' = "pause" /\ bwake' = now + BatchPause
       ELSE bpc' = "loop" /\ bwake' = bwake
    /\ UNCHANGED <<cfg, now, requests, permits, lockHolder, limiterOf, permit,
                   attempt, wake, delay, opStart, invoked, failed, outcome, ret,
                   calls, batch_requests, batch_size, importVars,
                   restVars>>

\* sleep(100ms) is over.
WakePause ==
    /\ bpc = "pause"
    /\ now >= bwake
    /\ bpc' = "loop"
    /\ bwake' = 0
    /\ UNCHANGED <<cfg, now, requests, permits, lockHolder, limiterOf, pc, permit,
                   attempt, wake, delay, opStart, invoked, failed, outcome, ret,
                   calls, batch_requests, batch_size, results, chunkStart,
                   importVars, restVars>>

\* The loop is over: execute_batch returns results.
BatchReturn ==
    /\ bpc = "loop"
    /\ chunkStart >= Len(batch_requests)
    /\ bpc' = "returned"
    /\ UNCHANGED <<cfg, now, requests, permits, lockHolder, limiterOf, pc, permit,
                   attempt, wake, delay, opStart, invoked, failed, outcome, ret,
                   calls, batch_requests, batch_size, results, chunkStart, bwake,
                   importVars, restVars>>

\* The clock advances during a batch.
BatchTick ==
    /\ now < MaxBatchTime
    /\ now' = now + 1
    /\ UNCHANGED <<otherVars, cfg, requests, permits, lockHolder, limiterOf, pc,
                   permit, attempt, wake, delay, opStart, invoked, failed, outcome,
                   ret, calls>>

NextBatch ==
    \/ NextChunk
    \/ \E t \in Tasks : BatchPoll(t) \/ BatchExecute(t)
    \/ JoinAll
    \/ WakePause
    \/ BatchReturn
    \/ BatchTick

SpecBatch == InitBatch /\ [][NextBatch]_vars


\* ------------------------------------------------- the import pipeline
\* import_spotify_data over the graph of neo4j_db.rs.  A provider call
\* (get_playlist_tracks, get_artist) is one step with its result; a graph query
\* (graph.execute) is one step that succeeds or fails.  A step is what the
\* handler does from the end of one await to its next await.
limiterVars == <<cfg, now, requests, permits, lockHolder, limiterOf, pc, permit,
                 attempt, wake, delay, opStart, invoked, failed, outcome, ret, calls>>

\* A Track as far as the graph sees it.
Track(id, artist_ids, album_id) ==
    [id |-> id, artist_ids |-> artist_ids, album_id |-> album_id]

\* The playlists the provider holds: none of its tracks; two tracks that share
\* a performer, one with an album and one without (album_id ""); a track listed
\* twice.
Playlists ==
    { <<>>,
      << Track("t1", <<"a1", "a2">>, "al1"), Track("t2", <<"a1">>, "") >>,
      << Track("t1", <<"a1">>, ""), Track("t1", <<"a1">>, "") >> }

\* An entry of the log of an import: a graph write or a provider fetch made
\* while track number k of the loop was processed.
Entry(k, what, id, to) == [k |-> k, what |-> what, id |-> id, to |-> to]

InitPipeline ==
    /\ cfg \in ImportConfigs
    /\ now = 0
    /\ requests = [l \in Limiters |-> <<>>]
    /\ permits = [l \in Limiters |-> 0]
    /\ lockHolder = [l \in Limiters |-> NoTask]
    /\ TaskInit("noclient", NoLimiter)
    /\ NoBatch
    /\ playlist \in Playlists
    /\ nodes = {}
    /\ edges = {}
    /\ ipc = [r \in Tasks |-> "idle"]
    /\ ImportLocalsInit
    /\ NoRest

\* The track of the loop and the artist id of the inner loops.
CurTrack(r) == tracks[r][track_index[r]]
CurArtist(r) == CurTrack(r).artist_ids[apos[r]]

\* The handler is invoked; the imports are numbered in the order they begin in.
ImportBegin(r) ==
    /\ ipc[r] = "idle"
    /\ \A u \in 1..(r - 1) : ipc[u] # "idle"
    /\ ipc' = [ipc EXCEPT ![r] = "fetch_tracks"]
    /\ began' = [began EXCEPT ![r] = {u \in Tasks : ipc[u] = "ok"}]
    /\ UNCHANGED <<limiterVars, batchVars, restVars, playlist, nodes, edges, tracks, track_index,
                   apos, processed_artists, imported_tracks, imported_artists, log>>

\* get_playlist_tracks is Ok(tracks): the loop starts, or, over no track, the
\* handler returns its success.
FetchTracksOk(r) ==
    /\ ipc[r] = "fetch_tracks"
    /\ tracks' = [tracks EXCEPT ![r] = playlist]
    /\ IF playlist = <<>>
       THEN /\ ipc' = [ipc EXCEPT ![r] = "ok"]
            /\ UNCHANGED track_index
       ELSE /\ ipc' = [ipc EXCEPT ![r] = "track_node"]
            /\ track_index' = [track_index EXCEPT ![r] = 1]
    /\ UNCHANGED <<limiterVars, batchVars, restVars, playlist, nodes, edges, apos,
                   processed_artists, imported_tracks, imported_artists, log, began>>

\* A failed get_playlist_tracks after which the handler upserts the first track
\* of the playlist before it returns the error.
FetchTracksErrAfterWrite(r) ==
    /\ ipc[r] = "fetch_tracks"
    /\ ipc' = [ipc EXCEPT ![r] = "bad_request"]
    /\ nodes' = IF playlist = <<>> THEN nodes
                ELSE nodes \cup {<<"Track", playlist[1].id>>}
    /\ UNCHANGED <<limiterVars, batchVars, restVars, playlist, edges, tracks, track_index,
                   apos, processed_artists, imported_tracks, imported_artists, log,
                   began>>

\* get_playlist_tracks is Err: return Err(BAD_REQUEST).
FetchTracksErr(r) ==
    /\ ipc[r] = "fetch_tracks"
    /\ ipc' = [ipc EXCEPT ![r] = "bad_request"]
    /\ UNCHANGED <<limiterVars, batchVars, restVars, playlist, nodes, edges, tracks, track_index,
                   apos, processed_artists, imported_tracks, imported_artists, log,
                   began>>

\* The loop over track.artist_ids from position from on: the first position
\* whose id is not in processed_artists, or one past the last.
NextFetchNone(t, from, seen) == Len(t.artist_ids) + 1

NextFetch(t, from, seen) ==
    LET unseen == {n \in from..Len(t.artist_ids) : t.artist_ids[n] \notin seen}
    IN  IF unseen = {} THEN Len(t.artist_ids) + 1
        ELSE CHOOSE n \in unseen : \A m \in unseen : n <= m

\* Where the handler awaits next once position from - 1 of the artist ids of
\* its track is dealt with: the next get_artist, the first query of the next
\* track, or nothing more (it returns Ok(Json(...))).
Resume(r, from, seen) ==
    LET n == NextFetch(CurTrack(r), from, seen) IN
    IF n <= Len(CurTrack(r).artist_ids)
    THEN [ipc |-> "get_artist", track_index |-> track_index[r], apos |-> n]
    ELSE IF track_index[r] < Len(tracks[r])
    THEN [ipc |-> "track_node", track_index |-> track_index[r] + 1, apos |-> 0]
    ELSE [ipc |-> "ok", track_index |-> track_index[r], apos |-> 0]

\* Where store_track goes after its query number q (0 the track, then one per
\* artist id) of track t: the next relationship, the album, or Ok(()).
AfterQuery(t, q) ==
    IF q < Len(t.artist_ids) THEN "track_rel"
    ELSE IF t.album_id # "" THEN "track_album"
    ELSE "track_ok"

\* A query of store_track succeeded: its next query, or, store_track being Ok,
\* imported_tracks += 1 and the loop over track.artist_ids.
AfterStoreQuery(r, q) ==
    LET ph == AfterQuery(CurTrack(r), q)
        n == Resume(r, 1, processed_artists[r])
    IN  IF ph = "track_ok"
        THEN /\ imported_tracks' = [imported_tracks EXCEPT ![r] = @ + 1]
             /\ ipc' = [ipc EXCEPT ![r] = n.ipc]
             /\ track_index' = [track_index EXCEPT ![r] = n.track_index]
             /\ apos' = [apos EXCEPT ![r] = n.apos]
        ELSE /\ ipc' = [ipc EXCEPT ![r] = ph]
             /\ apos' = [apos EXCEPT ![r] = q + 1]
             /\ UNCHANGED <<imported_tracks, track_index>>

\* store_track: MERGE (t:Track {id: $id}) SET ...
StoreTrackNode(r) ==
    /\ ipc[r] = "track_node"
    /\ nodes' = nodes \cup {<<"Track", CurTrack(r).id>>}
    /\ log' = [log EXCEPT ![r] =
                  Append(@, Entry(track_index[r], "track", CurTrack(r).id, ""))]
    /\ AfterStoreQuery(r, 0)
    /\ UNCHANGED <<limiterVars, batchVars, restVars, playlist, edges, tracks,
                   processed_artists, imported_artists, began>>

\* store_track: MATCH (t:Track {id}), (a:Artist {id}) MERGE (a)-[:PERFORMED]->(t).
\* Without an Artist node of that id the MATCH yields no row and nothing is merged.
StoreTrackRel(r) ==
    LET a == CurArtist(r)
        t == CurTrack(r).id
        found == <<"Artist", a>> \in nodes /\ <<"Track", t>> \in nodes
    IN  /\ ipc[r] = "track_rel"
        /\ edges' = IF found THEN edges \cup {<<"PERFORMED", a, t>>} ELSE edges
        /\ log' = [log EXCEPT ![r] =
                      IF found THEN Append(@, Entry(track_index[r], "performed", a, t))
                      ELSE @]
        /\ AfterStoreQuery(r, apos[r])
        /\ UNCHANGED <<limiterVars, batchVars, restVars, playlist, nodes, tracks,
                       processed_artists, imported_artists, began>>

\* store_track, album_id not empty: MERGE (al:Album {id}) SET al.name WITH al
\* MATCH (t:Track {id}) MERGE (al)-[:CONTAINS]->(t); then Ok(()).
StoreTrackAlbum(r) ==
    LET al == CurTrack(r).album_id
        t == CurTrack(r).id
        n == Resume(r, 1, processed_artists[r])
    IN  /\ ipc[r] = "track_album"
        /\ nodes' = nodes \cup {<<"Album", al>>}
        /\ edges' = IF <<"Track", t>> \in nodes
                    THEN edges \cup {<<"CONTAINS", al, t>>} ELSE edges
        /\ log' = [log EXCEPT ![r] = Append(@, Entry(track_index[r], "album", al, t))]
        /\ imported_tracks' = [imported_tracks EXCEPT ![r] = @ + 1]
        /\ ipc' = [ipc EXCEPT ![r] = n.ipc]
        /\ track_index' = [track_index EXCEPT ![r] = n.track_index]
        /\ apos' = [apos EXCEPT ![r] = n.apos]
        /\ UNCHANGED <<limiterVars, batchVars, restVars, playlist, tracks, processed_artists,
                       imported_artists, began>>

\* A failed query of store_track that takes the Track node of the call back.
StoreTrackErrRollback(r) ==
    /\ ipc[r] \in {"track_node", "track_rel", "track_album"}
    /\ nodes' = nodes \ {<<"Track", CurTrack(r).id>>}
    /\ log' = [log EXCEPT ![r] =
                  Append(@, Entry(track_index[r], "store_err", CurTrack(r).id, ""))]
    /\ ipc' = [ipc EXCEPT ![r] = "storage_error"]
    /\ UNCHANGED <<limiterVars, batchVars, restVars, playlist, edges, tracks, track_index,
                   apos, processed_artists, imported_tracks, imported_artists, began>>

\* A query of store_track fails (graph.execute(...).await?): store_track is Err,
\* return Err(INTERNAL_SERVER_ERROR).
StoreTrackErr(r) ==
    /\ ipc[r] \in {"track_node", "track_rel", "track_album"}
    /\ log' = [log EXCEPT ![r] =
                  Append(@, Entry(track_index[r], "store_err", CurTrack(r).id, ""))]
    /\ ipc' = [ipc EXCEPT ![r] = "storage_error"]
    /\ UNCHANGED <<limiterVars, batchVars, restVars, playlist, nodes, edges, tracks, track_index,
                   apos, processed_artists, imported_tracks, imported_artists, began>>

\* get_artist is Ok(artist), the artist of the id asked for: store_artist.
GetArtistOk(r) ==
    /\ ipc[r] = "get_artist"
    /\ log' = [log EXCEPT ![r] =
                  Append(@, Entry(track_index[r], "fetch_ok", CurArtist(r), ""))]
    /\ ipc' = [ipc EXCEPT ![r] = "store_artist"]
    /\ UNCHANGED <<limiterVars, batchVars, restVars, playlist, nodes, edges, tracks, track_index,
                   apos, processed_artists, imported_tracks, imported_artists, began>>

\* A failed get_artist that ends the import.
GetArtistErrAborts(r) ==
    /\ ipc[r] = "get_artist"
    /\ log' = [log EXCEPT ![r] =
                  Append(@, Entry(track_index[r], "fetch_err", CurArtist(r), ""))]
    /\ ipc' = [ipc EXCEPT ![r] = "bad_request"]
    /\ UNCHANGED <<limiterVars, batchVars, restVars, playlist, nodes, edges, tracks, track_index,
                   apos, processed_artists, imported_tracks, imported_artists, began>>

\* get_artist is Err: a warning, and the loop goes on with processed_artists
\* as it was.
GetArtistErr(r) ==
    LET n == Resume(r, apos[r] + 1, processed_artists[r]) IN
    /\ ipc[r] = "get_artist"
    /\ log' = [log EXCEPT ![r] =
                  Append(@, Entry(track_index[r], "fetch_err", CurArtist(r), ""))]
    /\ ipc' = [ipc EXCEPT ![r] = n.ipc]
    /\ track_index' = [track_index EXCEPT ![r] = n.track_index]
    /\ apos' = [apos EXCEPT ![r] = n.apos]
    /\ UNCHANGED <<limiterVars, batchVars, restVars, playlist, nodes, edges, tracks,
                   processed_artists, imported_tracks, imported_artists, began>>

\* A store_artist whose success is counted only when the Artist node is new to
\* the graph.
StoreArtistOkCountsNew(r) ==
    LET seen == processed_artists[r] \cup {CurArtist(r)}
        n == Resume(r, apos[r] + 1, seen)
    IN  /\ ipc[r] = "store_artist"
        /\ nodes' = nodes \cup {<<"Artist", CurArtist(r)>>}
        /\ log' = [log EXCEPT ![r] =
                      Append(@, Entry(track_index[r], "artist", CurArtist(r), ""))]
        /\ imported_artists' = [imported_artists EXCEPT ![r] =
                                    IF <<"Artist", CurArtist(r)>> \in nodes
                                    THEN @ ELSE @ + 1]
        /\ processed_artists' = [processed_artists EXCEPT ![r] = seen]
        /\ ipc' = [ipc EXCEPT ![r] = n.ipc]
        /\ track_index' = [track_index EXCEPT ![r] = n.track_index]
        /\ apos' = [apos EXCEPT ![r] = n.apos]
        /\ UNCHANGED <<limiterVars, batchVars, restVars, playlist, edges, tracks,
                       imported_tracks, began>>

\* store_artist (MERGE (a:Artist {id: $id}) SET ...) is Ok: imported_artists += 1,
\* processed_artists.insert(artist_id), and the loop goes on.
StoreArtistOk(r) ==
    LET seen == processed_artists[r] \cup {CurArtist(r)}
        n == Resume(r, apos[r] + 1, seen)
    IN  /\ ipc[r] = "store_artist"
        /\ nodes' = nodes \cup {<<"Artist", CurArtist(r)>>}
        /\ log' = [log EXCEPT ![r] =
                      Append(@, Entry(track_index[r], "artist", CurArtist(r), ""))]
        /\ imported_artists' = [imported_artists EXCEPT ![r] = @ + 1]
        /\ processed_artists' = [processed_artists EXCEPT ![r] = seen]
        /\ ipc' = [ipc EXCEPT ![r] = n.ipc]
        /\ track_index' = [track_index EXCEPT ![r] = n.track_index]
        /\ apos' = [apos EXCEPT ![r] = n.apos]
        /\ UNCHANGED <<limiterVars, batchVars, restVars, playlist, edges, tracks,
                       imported_tracks, began>>

\* A failed store_artist that takes the Track node of its track back.
StoreArtistErrRollback(r) ==
    /\ ipc[r] = "store_artist"
    /\ nodes' = nodes \ {<<"Track", CurTrack(r).id>>}
    /\ log' = [log EXCEPT ![r] =
                  Append(@, Entry(track_index[r], "store_err", CurArtist(r), ""))]
    /\ ipc' = [ipc EXCEPT ![r] = "storage_error"]
    /\ UNCHANGED <<limiterVars, batchVars, restVars, playlist, edges, tracks, track_index,
                   apos, processed_artists, imported_tracks, imported_artists, began>>

\* store_artist is Err: return Err(INTERNAL_SERVER_ERROR).
StoreArtistErr(r) ==
    /\ ipc[r] = "store_artist"
    /\ log' = [log EXCEPT ![r] =
                  Append(@, Entry(track_index[r], "store_err", CurArtist(r), ""))]
    /\ ipc' = [ipc EXCEPT ![r] = "storage_error"]
    /\ UNCHANGED <<limiterVars, batchVars, restVars, playlist, nodes, edges, tracks, track_index,
                   apos, processed_artists, imported_tracks, imported_artists, began>>

ImportStep(r) ==
    \/ ImportBegin(r)
    \/ FetchTracksOk(r)
    \/ FetchTracksErr(r)
    \/ StoreTrackNode(r)
    \/ StoreTrackRel(r)
    \/ StoreTrackAlbum(r)
    \/ StoreTrackErr(r)
    \/ GetArtistOk(r)
    \/ GetArtistErr(r)
    \/ StoreArtistOk(r)
    \/ StoreArtistErr(r)

NextPipeline == \E r \in Tasks : ImportStep(r)

SpecPipeline == InitPipeline /\ [][NextPipeline]_vars

\* --------------------------------------------------- the SpotifyClient
\* get_playlist_tracks, get_artist and get_recommendations of one SpotifyClient,
\* called one after the other by task Caller through the client's RateLimiter.
\* A provider request that goes through execute is in flight while the call is
\* at "operation"; the method goes on when execute has returned.
Caller == 1

MaxFaultCall == 3

\* An item of the page of a playlist: a track object with all its fields
\* ("track"), a track object without the key "id" ("noid"), a track object
\* whose "id" is no string, as the null id of a local file ("nullid"), or no
\* track object at all ("null").
Item(kind, id) == [kind |-> kind, id |-> id]

Catalogs ==
    { <<>>,
      << Item("track", "t1"), Item("track", "t2") >>,
      << Item("track", "t1"), Item("noid", ""), Item("track", "t3") >>,
      << Item("track", "t1"), Item("nullid", ""), Item("track", "t3") >>,
      << Item("null", ""), Item("track", "t2") >> }

PageSizes == {1, 2}

\* What the provider may answer a request with: no answer (send() is Err), a
\* non-success status, a success status with a body that is not the JSON
\* expected, a success with it.
ReplyKinds == {"network", "status", "malformed", "success"}

\* The provider answers execute call number call badly, in one way, for the
\* first times attempts of it: one, or all.
Faults(config) ==
    {NoFault} \cup
    [call : 1..MaxFaultCall, kind : ReplyKinds \ {"success"},
     times : {1, config.max_retries + 1}]

InitClient ==
    /\ cfg \in ImportConfigs
    /\ now = 0
    /\ requests = [l \in Limiters |-> <<>>]
    /\ permits = [l \in Limiters |-> IF l = SharedLimiter THEN max_concurrent(cfg) ELSE 0]
    /\ lockHolder = [l \in Limiters |-> NoTask]
    /\ TaskInit("noclient", NoLimiter)
    /\ NoBatch
    /\ NoImport
    /\ NoSide
    /\ NoYoutube
    /\ NoSimilar
    /\ catalog \in Catalogs
    /\ limit \in PageSizes
    /\ fault \in Faults(cfg)
    /\ cop = "none"
    /\ cpc = "noclient"
    /\ offset = 0
    /\ item = 0
    /\ fetched = <<>>
    /\ pages = <<>>
    /\ reply = "none"
    /\ failedFeat = {}

\* SpotifyClient::new(): the client and its RateLimiter.
NewClient ==
    /\ cpc = "noclient"
    /\ cpc' = "idle"
    /\ limiterOf' = [limiterOf EXCEPT ![Caller] = SharedLimiter]
    /\ pc' = [pc EXCEPT ![Caller] = "idle"]
    /\ UNCHANGED <<cfg, now, requests, permits, lockHolder, permit, attempt, wake,
                   delay, opStart, invoked, failed, outcome, ret, calls, batchVars,
                   importVars, sideVars, ytVars, simVars, catalog, limit, fault,
                   cop, offset, item, fetched,
                   pages, reply, failedFeat>>

\* The response to the request of the attempt that execute is making, or made
\* last.
ReplyKind ==
    IF fault.call = calls /\ attempt[Caller] < fault.times
    THEN fault.kind ELSE "success"

\* What the closure given to execute returns on a response: the closures of
\* get_playlist_tracks and get_artist are Err on a failed send() only; the one
\* of get_audio_features is Err on a failed send() and on a failed json(), and
\* Ok(json!({})) on a non-success status.
ClosureResult(call, r) ==
    IF r = "network" THEN "network"
    ELSE IF call = "features" /\ r = "malformed" THEN "parse"
    ELSE "ok"

\* self.rate_limiter.execute(|| async { ... }): the method enters execute.
ClientCall ==
    /\ cpc \in {"page", "features", "artist"}
    /\ pc[Caller] = "idle"
    /\ BeginExecute(Caller)

\* A step of the execute call of the client; its operation is the request the
\* provider answers.
ClientExecute ==
    \/ Acquire(Caller)
    \/ LockConfig(Caller)
    \/ ReadConfig(Caller)
    \/ LockCheck(Caller)
    \/ CheckRateLimit(Caller)
    \/ WakeWindow(Caller)
    \/ ClosureResult(cpc, ReplyKind) = "ok" /\ OperationOk(Caller)
    \/ LockRecord(Caller)
    \/ RecordAndReturn(Caller)
    \/ ClosureResult(cpc, ReplyKind) # "ok"
          /\ OperationErrRetry(Caller, ClosureResult(cpc, ReplyKind))
    \/ ClosureResult(cpc, ReplyKind) # "ok"
          /\ OperationErrFinal(Caller, ClosureResult(cpc, ReplyKind))
    \/ WakeBackoff(Caller)

\* What no step of a method changes in the limiter; the call that returned is
\* taken by the method (pc back to "idle").
Taken ==
    /\ pc[Caller] = "done"
    /\ pc' = [pc EXCEPT ![Caller] = "idle"]
    /\ UNCHANGED <<cfg, now, requests, permits, lockHolder, limiterOf, permit, attempt,
                   wake, delay, opStart, invoked, failed, outcome, ret, calls,
                   batchVars, importVars, sideVars, ytVars, simVars, catalog, limit, fault>>

\* The page at an offset, as the provider cuts it.
PageItems(off) == SubSeq(catalog, off + 1, Min(off + limit, Len(catalog)))

\* The items the loop of the method runs over, and the place of item n of them
\* in the catalog.
CurItems(off) == IF cop = "recommendations" THEN catalog ELSE PageItems(off)

\* if items.is_empty() { break; }
IsLastPageShort(items) == Len(items) < limit

IsLastPage(items) == items = <<>>

\* for item in items, from item number from on: an item without a track object
\* is passed over (if let Some(track_data) = item["track"].as_object()); a track
\* object whose "id" is no string makes parse_track Err before any request
\* (as_str().ok_or(...)?) and is passed over; the loop stops at the first track
\* object without the key "id", where track_data["id"] panics (track_data is a
\* serde_json::Map, whose index panics on a missing key), and at the first
\* track with its fields, where parse_track awaits get_audio_features.
\* get_recommendations unwraps the track object instead
\* (track_value.as_object().unwrap()), and panics on an item without one.
NextFeatures(items, from) ==
    LET stop == {n \in from..Len(items) :
                    \/ items[n].kind = "track"
                    \/ items[n].kind = "noid"
                    \/ items[n].kind = "null" /\ cop = "recommendations"}
    IN  IF stop = {} THEN Len(items) + 1
        ELSE CHOOSE n \in stop : \A m \in stop : n <= m

\* The loop over the items goes on from item number from: to the next
\* get_audio_features, to the panic of unwrap or of the index, or past the last
\* item, where
\* get_playlist_tracks asks for the next page (offset += limit) and
\* get_recommendations returns Ok(result_tracks).
LoopFrom(off, from) ==
    LET items == CurItems(off)
        n == NextFeatures(items, from)
    IN  IF n <= Len(items)
        THEN /\ cpc' = IF items[n].kind \in {"null", "noid"} THEN "panic" ELSE "features"
             /\ item' = n
             /\ offset' = off
             /\ UNCHANGED pages
        ELSE IF cop = "recommendations"
        THEN /\ cpc' = "ok"
             /\ item' = 0
             /\ offset' = off
             /\ UNCHANGED pages
        ELSE /\ cpc' = "page"
             /\ item' = 0
             /\ offset' = off + limit
             /\ pages' = Append(pages, off + limit)

\* get_playlist_tracks is called: offset = 0, the first page is asked for.
GetPlaylistTracks ==
    /\ cpc = "idle"
    /\ cop' = "playlist_tracks"
    /\ cpc' = "page"
    /\ offset' = 0
    /\ item' = 0
    /\ fetched' = <<>>
    /\ pages' = <<0>>
    /\ reply' = "none"
    /\ failedFeat' = {}
    /\ UNCHANGED <<limiterVars, batchVars, importVars, sideVars, ytVars, simVars,
                   catalog, limit, fault>>

\* execute returned Err for a page (.await?): get_playlist_tracks is Err.
PageErr ==
    /\ cpc = "page"
    /\ ret[Caller] # "Ok"
    /\ Taken
    /\ cpc' = "err"
    /\ reply' = "none"
    /\ UNCHANGED <<cop, offset, item, fetched, pages, failedFeat>>

\* execute returned Ok(response) for a page, and the status is no success, or
\* response.json() is Err: get_playlist_tracks is Err.
PageBad ==
    /\ cpc = "page"
    /\ ret[Caller] = "Ok"
    /\ ReplyKind \in {"status", "malformed"}
    /\ Taken
    /\ cpc' = "err"
    /\ reply' = ReplyKind
    /\ UNCHANGED <<cop, offset, item, fetched, pages, failedFeat>>

\* The page has no item: break, and Ok(tracks).
PageEmpty ==
    /\ cpc = "page"
    /\ ret[Caller] = "Ok"
    /\ ReplyKind = "success"
    /\ IsLastPage(PageItems(offset))
    /\ Taken
    /\ cpc' = "ok"
    /\ reply' = ReplyKind
    /\ UNCHANGED <<cop, offset, item, fetched, pages, failedFeat>>

\* The page has items: the loop over them starts.
PageParse ==
    /\ cpc = "page"
    /\ ret[Caller] = "Ok"
    /\ ReplyKind = "success"
    /\ ~IsLastPage(PageItems(offset))
    /\ Taken
    /\ LoopFrom(offset, 1)
    /\ reply' = ReplyKind
    /\ UNCHANGED <<cop, fetched, failedFeat>>

\* get_audio_features is Ok: parse_track is Ok(track), with the features of the
\* response, or with 0.0 for each when the status was no success (json!({})),
\* and the track is pushed.
FeaturesOk ==
    /\ cpc = "features"
    /\ ret[Caller] = "Ok"
    /\ Taken
    /\ fetched' = Append(fetched,
                         [id |-> CurItems(offset)[item].id,
                          features |-> IF ReplyKind = "success" THEN "provider"
                                       ELSE "zero"])
    /\ LoopFrom(offset, item + 1)
    /\ reply' = ReplyKind
    /\ UNCHANGED <<cop, failedFeat>>

\* get_audio_features is Err (.await? in parse_track): parse_track is Err, the
\* item is not pushed, and the loop goes on.
FeaturesErr ==
    /\ cpc = "features"
    /\ ret[Caller] # "Ok"
    /\ Taken
    /\ failedFeat' = failedFeat \cup {offset + item}
    /\ LoopFrom(offset, item + 1)
    /\ reply' = "none"
    /\ UNCHANGED <<cop, fetched>>

\* get_artist is called: its request goes through execute.
GetArtist ==
    /\ cpc = "idle"
    /\ cop' = "artist"
    /\ cpc' = "artist"
    /\ offset' = 0
    /\ item' = 0
    /\ fetched' = <<>>
    /\ pages' = <<>>
    /\ reply' = "none"
    /\ failedFeat' = {}
    /\ UNCHANGED <<limiterVars, batchVars, importVars, sideVars, ytVars, simVars,
                   catalog, limit, fault>>

\* The JSON body of a successful response to get_artist: an artist object with
\* its name and id, one without its name, one without its id.
ArtistBodies == {"artist", "noname", "noid"}

\* A get_artist that fills a missing name or id with a default, as it does for
\* popularity and followers.
ArtistReturnDefaulting(body) ==
    /\ cpc = "artist"
    /\ Taken
    /\ reply' = IF ret[Caller] # "Ok" THEN "none"
                ELSE IF ReplyKind = "success" THEN body ELSE ReplyKind
    /\ cpc' = IF ret[Caller] = "Ok" /\ ReplyKind = "success" THEN "ok" ELSE "err"
    /\ UNCHANGED <<cop, offset, item, fetched, pages, failedFeat>>

\* execute returned for get_artist: Err (.await?), or Ok(response) with a
\* status that is no success, a body that is no JSON, or a JSON body without
\* data["name"] or data["id"] (get_artist is Err: ok_or(...)?), or the artist.
ArtistReturn(body) ==
    /\ cpc = "artist"
    /\ Taken
    /\ reply' = IF ret[Caller] # "Ok" THEN "none"
                ELSE IF ReplyKind = "success" THEN body ELSE ReplyKind
    /\ cpc' = IF ret[Caller] = "Ok" /\ ReplyKind = "success" /\ body = "artist"
              THEN "ok" ELSE "err"
    /\ UNCHANGED <<cop, offset, item, fetched, pages, failedFeat>>

\* get_recommendations is called: self.client.get(&url).header(...).send(),
\* the request is sent at once.
GetRecommendations ==
    /\ cpc = "idle"
    /\ cop' = "recommendations"
    /\ cpc' = "direct"
    /\ offset' = 0
    /\ item' = 0
    /\ fetched' = <<>>
    /\ pages' = <<>>
    /\ reply' = "none"
    /\ failedFeat' = {}
    /\ UNCHANGED <<limiterVars, batchVars, importVars, sideVars, ytVars, simVars,
                   catalog, limit, fault>>

\* The provider answers the request of get_recommendations: send() is Err, the
\* status is no success or the body has no tracks (get_recommendations is Err),
\* or the loop over data["tracks"] starts.
RecommendationsResponse(r) ==
    /\ cpc = "direct"
    /\ reply' = r
    /\ IF r = "success"
       THEN LoopFrom(0, 1)
       ELSE /\ cpc' = "err"
            /\ UNCHANGED <<offset, item, pages>>
    /\ UNCHANGED <<limiterVars, batchVars, importVars, sideVars, ytVars, simVars, catalog, limit, fault, cop,
                   fetched, failedFeat>>

\* The method has returned: the client is called again.
ClientAgain ==
    /\ cpc \in {"ok", "err"}
    /\ calls < MaxFaultCall
    /\ cpc' = "idle"
    /\ UNCHANGED <<limiterVars, batchVars, importVars, sideVars, ytVars, simVars, catalog, limit, fault, cop,
                   offset, item, fetched, pages, reply, failedFeat>>

NextClient ==
    \/ NewClient
    \/ GetPlaylistTracks
    \/ GetArtist
    \/ GetRecommendations
    \/ ClientCall
    \/ ClientExecute
    \/ PageErr
    \/ PageBad
    \/ PageEmpty
    \/ PageParse
    \/ FeaturesOk
    \/ FeaturesErr
    \/ \E body \in ArtistBodies : ArtistReturn(body)
    \/ \E r \in ReplyKinds : RecommendationsResponse(r)
    \/ ClientAgain
    \/ Tick

SpecClient == InitClient /\ [][NextClient]_vars

\* ------------------------------------- create_playlist_from_tracks
\* YouTubeClient::create_playlist_from_tracks. A request to the provider
\* (create_playlist, search_video, add_video_to_playlist) is one step with its
\* result; the pause between batches is one more.
MaxQueries == 3

\* let batch_size = 10, scaled to the track names of the model.
YtBatchSize == 2

QueryNames == {"q1", "q2"}

InitYoutube ==
    /\ cfg \in ImportConfigs
    /\ now = 0
    /\ requests = [l \in Limiters |-> <<>>]
    /\ permits = [l \in Limiters |-> 0]
    /\ lockHolder = [l \in Limiters |-> NoTask]
    /\ TaskInit("noclient", NoLimiter)
    /\ NoBatch
    /\ NoImport
    /\ NoSide
    /\ NoClient
    /\ NoSimilar
    /\ track_names \in UNION {[1..n -> QueryNames] : n \in 0..MaxQueries}
    /\ ypc = "idle"
    /\ yindex = 0
    /\ tracks_added = 0
    /\ tracks_not_found = <<>>
    /\ youtcome = <<>>
    /\ ypauses = <<>>

\* create_playlist_from_tracks is called: create_playlist sends its request.
YoutubeBegin ==
    /\ ypc = "idle"
    /\ ypc' = "create"
    /\ UNCHANGED <<limiterVars, batchVars, importVars, sideVars, clientVars, simVars,
                   track_names, yindex, tracks_added, tracks_not_found, youtcome,
                   ypauses>>

\* create_playlist is Err (.await?): create_playlist_from_tracks is Err.
CreatePlaylistErr ==
    /\ ypc = "create"
    /\ ypc' = "err"
    /\ UNCHANGED <<limiterVars, batchVars, importVars, sideVars, clientVars, simVars,
                   track_names, yindex, tracks_added, tracks_not_found, youtcome,
                   ypauses>>

\* create_playlist is Ok(playlist_id): the loops start, or, without a track
\* name, Ok(CreatedPlaylist) is returned.
CreatePlaylistOk ==
    /\ ypc = "create"
    /\ IF track_names = <<>>
       THEN ypc' = "ok" /\ UNCHANGED yindex
       ELSE ypc' = "search" /\ yindex' = 1
    /\ UNCHANGED <<limiterVars, batchVars, importVars, sideVars, clientVars, simVars,
                   track_names, tracks_added, tracks_not_found, youtcome, ypauses>>

\* The track name of the loops is dealt with, added being tracks_added by now:
\* the next name of the batch; or, the batch being over, the pause
\* (if batch.len() == batch_size && tracks_added < track_names.len()), the
\* next batch, or Ok(CreatedPlaylist).
AfterName(added) ==
    LET batchOver == yindex % YtBatchSize = 0 \/ yindex = Len(track_names)
        batchFull == yindex % YtBatchSize = 0
    IN  IF batchOver /\ batchFull /\ added < Len(track_names)
        THEN /\ ypc' = "pause"
             /\ ypauses' = Append(ypauses, yindex)
             /\ UNCHANGED yindex
        ELSE IF yindex < Len(track_names)
        THEN /\ ypc' = "search"
             /\ yindex' = yindex + 1
             /\ UNCHANGED ypauses
        ELSE /\ ypc' = "ok"
             /\ UNCHANGED <<yindex, ypauses>>

\* search_video is Ok(Some(video)): add_video_to_playlist sends its request.
SearchVideoSome ==
    /\ ypc = "search"
    /\ ypc' = "add"
    /\ UNCHANGED <<limiterVars, batchVars, importVars, sideVars, clientVars, simVars,
                   track_names, yindex, tracks_added, tracks_not_found, youtcome,
                   ypauses>>

\* search_video is Ok(None): tracks_not_found.push(track_name).
SearchVideoNone ==
    /\ ypc = "search"
    /\ tracks_not_found' = Append(tracks_not_found, track_names[yindex])
    /\ youtcome' = Append(youtcome, "none")
    /\ AfterName(tracks_added)
    /\ UNCHANGED <<limiterVars, batchVars, importVars, sideVars, clientVars, simVars,
                   track_names, tracks_added>>

\* A failed search_video that ends the call.
SearchVideoErrAborts ==
    /\ ypc = "search"
    /\ youtcome' = Append(youtcome, "search_err")
    /\ ypc' = "err"
    /\ UNCHANGED <<limiterVars, batchVars, importVars, sideVars, clientVars, simVars,
                   track_names, yindex, tracks_added, tracks_not_found, ypauses>>

\* search_video is Err: tracks_not_found.push(track_name).
SearchVideoErr ==
    /\ ypc = "search"
    /\ tracks_not_found' = Append(tracks_not_found, track_names[yindex])
    /\ youtcome' = Append(youtcome, "search_err")
    /\ AfterName(tracks_added)
    /\ UNCHANGED <<limiterVars, batchVars, importVars, sideVars, clientVars, simVars,
                   track_names, tracks_added>>

\* add_video_to_playlist is Ok: tracks_added += 1.
AddVideoOk ==
    /\ ypc = "add"
    /\ tracks_added' = tracks_added + 1
    /\ youtcome' = Append(youtcome, "added")
    /\ AfterName(tracks_added + 1)
    /\ UNCHANGED <<limiterVars, batchVars, importVars, sideVars, clientVars, simVars,
                   track_names, tracks_not_found>>

\* add_video_to_playlist is Err: tracks_not_found.push(track_name).
AddVideoErr ==
    /\ ypc = "add"
    /\ tracks_not_found' = Append(tracks_not_found, track_names[yindex])
    /\ youtcome' = Append(youtcome, "add_err")
    /\ AfterName(tracks_added)
    /\ UNCHANGED <<limiterVars, batchVars, importVars, sideVars, clientVars, simVars,
                   track_names, tracks_added>>

\* tokio::time::sleep(500ms) is over: the next batch, or Ok(CreatedPlaylist).
YoutubeWake ==
    /\ ypc = "pause"
    /\ IF yindex < Len(track_names)
       THEN ypc' = "search" /\ yindex' = yindex + 1
       ELSE ypc' = "ok" /\ UNCHANGED yindex
    /\ UNCHANGED <<limiterVars, batchVars, importVars, sideVars, clientVars, simVars,
                   track_names, tracks_added, tracks_not_found, youtcome, ypauses>>

NextYoutube ==
    \/ YoutubeBegin
    \/ CreatePlaylistErr
    \/ CreatePlaylistOk
    \/ SearchVideoSome
    \/ SearchVideoNone
    \/ SearchVideoErr
    \/ AddVideoOk
    \/ AddVideoErr
    \/ YoutubeWake

SpecYoutube == InitYoutube /\ [][NextYoutube]_vars

\* ------------------------------------------------ get_similar_tracks
\* The query of get_similar_tracks over the graph: its Track nodes with their
\* features (valence, energy and danceability in tenths, tempo in BPM) and its
\* PERFORMED edges.
MaxSeeds == 2
MaxSimLimit == 2

SimIds == {"s", "a", "b", "c"}

Vec(v, e, d, t) == [valence |-> v, energy |-> e, danceability |-> d, tempo |-> t]

\* The features store_track has set on the Track node of an id.
FeaturesOf(id) ==
    CASE id = "s" -> Vec(5, 5, 5, 120)
      [] id = "a" -> Vec(5, 5, 5, 120)
      [] id = "b" -> Vec(9, 9, 9, 160)
      [] id = "c" -> Vec(5, 5, 7, 100)
      [] OTHER -> Vec(0, 0, 0, 0)

\* A graph as imports leave it: Track nodes, of which some have the PERFORMED
\* edge of their artist and some have none.
InitSimilar ==
    /\ cfg \in ImportConfigs
    /\ now = 0
    /\ requests = [l \in Limiters |-> <<>>]
    /\ permits = [l \in Limiters |-> 0]
    /\ lockHolder = [l \in Limiters |-> NoTask]
    /\ TaskInit("noclient", NoLimiter)
    /\ NoBatch
    /\ NoSide
    /\ NoClient
    /\ NoYoutube
    /\ playlist = <<>>
    /\ ipc = [r \in Tasks |-> "none"]
    /\ ImportLocalsInit
    /\ \E present \in SUBSET SimIds :
          /\ nodes = {<<"Track", id>> : id \in present} \cup {<<"Artist", "a1">>}
          /\ features = [id \in present |-> FeaturesOf(id)]
          /\ \E performed \in SUBSET present :
                edges = {<<"PERFORMED", "a1", id>> : id \in performed}
    /\ seed_ids \in {S \in SUBSET SimIds : Cardinality(S) \in 1..MaxSeeds}
    /\ sim_limit \in 1..MaxSimLimit
    /\ similar = <<>>
    /\ spc = "idle"

Abs(x) == IF x < 0 THEN -x ELSE x

\* MATCH (seed:Track) WHERE seed.id IN $seed_ids MATCH (similar:Track)
\* WHERE similar.id <> seed.id: the seeds a Track node c is paired with.
TrackIdsOfGraph == {n[2] : n \in {m \in nodes : m[1] = "Track"}}
SeedsOf(c) == {x \in seed_ids \cap TrackIdsOfGraph : x # c}

\* valence_diff + energy_diff + dance_diff + tempo_diff of one pair, in 1/200.
Diff(c, x) ==
    20 * (Abs(features[c].valence - features[x].valence)
            + Abs(features[c].energy - features[x].energy)
            + Abs(features[c].danceability - features[x].danceability))
      + Abs(features[c].tempo - features[x].tempo)

RECURSIVE SumDiff(_, _)
SumDiff(c, S) ==
    IF S = {} THEN 0
    ELSE LET x == CHOOSE y \in S : TRUE IN Diff(c, x) + SumDiff(c, S \ {x})

\* similarity_score of c1 is lower than, or at most, the one of c2, each being
\* the avg over the seeds its node is paired with.
ScoreLess(c1, c2) ==
    SumDiff(c1, SeedsOf(c1)) * Cardinality(SeedsOf(c2))
        < SumDiff(c2, SeedsOf(c2)) * Cardinality(SeedsOf(c1))
ScoreLeq(c1, c2) == ~ScoreLess(c2, c1)

\* WITH similar, avg(...) AS similarity_score: one row for each Track node
\* paired with a seed.
Scored == {c \in TrackIdsOfGraph : SeedsOf(c) # {}}

\* ORDER BY similarity_score ASC LIMIT $limit keeps the rows T.
Limited(T) ==
    /\ T \subseteq Scored
    /\ Cardinality(T) = Min(sim_limit, Cardinality(Scored))
    /\ \A c1 \in T : \A c2 \in Scored \ T : ScoreLeq(c1, c2)

\* MATCH (similar)<-[:PERFORMED]-(a:Artist) ... RETURN ..., collect(DISTINCT a.id):
\* one row for each kept Track node that has a PERFORMED edge.
WithPerformer(T) == {c \in T : \E e \in edges : e[1] = "PERFORMED" /\ e[3] = c}

Orders(S) ==
    {q \in [1..Cardinality(S) -> S] : \A i, j \in DOMAIN q : q[i] = q[j] => i = j}

\* graph.execute(query) and the rows of its result: the rows that LIMIT kept,
\* where scores are equal any of them, in the order RETURN yields them in, on
\* which the query puts no ORDER BY after its aggregation.
SimilarQuery ==
    /\ spc = "idle"
    /\ \E T \in SUBSET Scored :
          /\ Limited(T)
          /\ \E q \in Orders(WithPerformer(T)) : similar' = q
    /\ spc' = "returned"
    /\ UNCHANGED <<limiterVars, batchVars, importVars, sideVars, clientVars, ytVars, features,
                   seed_ids, sim_limit>>

\* graph.execute(query).await? or result.next().await? is Err.
SimilarErr ==
    /\ spc = "idle"
    /\ spc' = "err"
    /\ UNCHANGED <<limiterVars, batchVars, importVars, sideVars, clientVars, ytVars, features,
                   seed_ids, sim_limit, similar>>

NextSimilar == SimilarQuery \/ SimilarErr

SpecSimilar == InitSimilar /\ [][NextSimilar]_vars

\* ------------------------------------------ one import, from its request
\* import_spotify_data from the request on, for the one import of task Caller,
\* and get_similar_tracks on the graph it writes. The handler resolves the
\* playlist id and the access token before its first await, or awaits
\* get_access_token; then it goes on as the import pipeline does.
MaxUrlLen == 4

UrlChars == {"/", "?", "p"}

Urls == UNION {[1..n -> UrlChars] : n \in 0..MaxUrlLen}

\* url.split(sep): the pieces of u between the separators, one more than there
\* are separators in u.
RECURSIVE Split(_, _)
Split(u, sep) ==
    LET at == {i \in DOMAIN u : u[i] = sep} IN
    IF at = {} THEN <<u>>
    ELSE LET i == CHOOSE j \in at : \A k \in at : j <= k
         IN  <<SubSeq(u, 1, i - 1)>> \o Split(SubSeq(u, i + 1, Len(u)), sep)

\* extract_playlist_id with split('/').next() in the place of last().
extract_playlist_id_first(url) ==
    LET captures == Split(url, "/")[1]
        id == Split(captures, "?")[1]
    IN  IF id # <<>> THEN <<id>> ELSE <<>>

\* extract_playlist_id: Some(id) is <<id>>, None is <<>>.
extract_playlist_id(url) ==
    LET pieces == Split(url, "/")
        captures == pieces[Len(pieces)]
        id == Split(captures, "?")[1]
    IN  IF id # <<>> THEN <<id>> ELSE <<>>

\* The tracks of the playlists have the features the provider gave them, 0.0
\* each; store_track sets them on the Track node.
InitService ==
    /\ cfg \in ImportConfigs
    /\ now = 0
    /\ requests = [l \in Limiters |-> <<>>]
    /\ permits = [l \in Limiters |-> 0]
    /\ lockHolder = [l \in Limiters |-> NoTask]
    /\ TaskInit("noclient", NoLimiter)
    /\ NoBatch
    /\ NoClient
    /\ NoYoutube
    /\ NoUpsert
    /\ playlist \in Playlists
    /\ nodes = {}
    /\ edges = {}
    /\ ipc = [r \in Tasks |-> IF r = Caller THEN "idle" ELSE "none"]
    /\ ImportLocalsInit
    /\ features = [id \in {"t1", "t2"} |-> FeaturesOf(id)]
    /\ seed_ids \in {S \in SUBSET {"t1", "t2"} : Cardinality(S) \in 1..MaxSeeds}
    /\ sim_limit \in 1..MaxSimLimit
    /\ similar = <<>>
    /\ spc = "idle"
    /\ playlist_url \in Urls
    /\ env_token \in BOOLEAN
    /\ playlist_id = <<>>
    /\ access_token = "none"
    /\ exchanges = 0

\* What the steps of the handler before get_playlist_tracks leave alone.
HeadFrame ==
    UNCHANGED <<limiterVars, batchVars, clientVars, ytVars, simVars, upsertVars,
                playlist, nodes, edges, tracks, track_index, apos, processed_artists,
                imported_tracks, imported_artists, log, began, playlist_url,
                env_token>>

\* extract_playlist_id is None: return Err(BAD_REQUEST).
HeadNoId ==
    /\ ipc[Caller] = "idle"
    /\ extract_playlist_id(playlist_url) = <<>>
    /\ ipc' = [ipc EXCEPT ![Caller] = "bad_request"]
    /\ UNCHANGED <<playlist_id, access_token, exchanges>>
    /\ HeadFrame

\* A head that takes the token of the environment for granted.
HeadEnvTokenUnchecked ==
    /\ ipc[Caller] = "idle"
    /\ extract_playlist_id(playlist_url) # <<>>
    /\ playlist_id' = extract_playlist_id(playlist_url)[1]
    /\ access_token' = "env"
    /\ ipc' = [ipc EXCEPT ![Caller] = "fetch_tracks"]
    /\ UNCHANGED exchanges
    /\ HeadFrame

\* The id is Some(id) and std::env::var("SPOTIFY_ACCESS_TOKEN") is Ok(token):
\* the handler awaits get_playlist_tracks.
HeadEnvToken ==
    /\ ipc[Caller] = "idle"
    /\ extract_playlist_id(playlist_url) # <<>>
    /\ env_token
    /\ playlist_id' = extract_playlist_id(playlist_url)[1]
    /\ access_token' = "env"
    /\ ipc' = [ipc EXCEPT ![Caller] = "fetch_tracks"]
    /\ UNCHANGED exchanges
    /\ HeadFrame

\* The id is Some(id) and the variable is not set: the handler awaits
\* spotify_client.get_access_token().
HeadExchange ==
    /\ ipc[Caller] = "idle"
    /\ extract_playlist_id(playlist_url) # <<>>
    /\ ~env_token
    /\ playlist_id' = extract_playlist_id(playlist_url)[1]
    /\ exchanges' = exchanges + 1
    /\ ipc' = [ipc EXCEPT ![Caller] = "exchange"]
    /\ UNCHANGED access_token
    /\ HeadFrame

\* get_access_token is Ok(token): the handler awaits get_playlist_tracks.
ExchangeOk ==
    /\ ipc[Caller] = "exchange"
    /\ access_token' = "exchanged"
    /\ ipc' = [ipc EXCEPT ![Caller] = "fetch_tracks"]
    /\ UNCHANGED <<playlist_id, exchanges>>
    /\ HeadFrame

\* get_access_token is Err (a secret is not set, the request failed, the
\* status is no success, the body is no token): return Err(UNAUTHORIZED).
ExchangeErr ==
    /\ ipc[Caller] = "exchange"
    /\ ipc' = [ipc EXCEPT ![Caller] = "unauthorized"]
    /\ UNCHANGED <<playlist_id, access_token, exchanges>>
    /\ HeadFrame

\* The import goes on from get_playlist_tracks.
ServiceImport ==
    \/ FetchTracksOk(Caller)
    \/ FetchTracksErr(Caller)
    \/ StoreTrackNode(Caller)
    \/ StoreTrackRel(Caller)
    \/ StoreTrackAlbum(Caller)
    \/ StoreTrackErr(Caller)
    \/ GetArtistOk(Caller)
    \/ GetArtistErr(Caller)
    \/ StoreArtistOk(Caller)
    \/ StoreArtistErr(Caller)

NextService ==
    \/ HeadNoId
    \/ HeadEnvToken
    \/ HeadExchange
    \/ ExchangeOk
    \/ ExchangeErr
    \/ ServiceImport
    \/ SimilarQuery
    \/ SimilarErr

SpecService == InitService /\ [][NextService]_vars


\* --------------------------------------------- upserts, node by node
\* store_track and store_artist of imports that run at once, on a graph that
\* counts its nodes and edges. Every query is a transaction of its own.
\* create_indexes (neo4j_db.rs 21-36) creates indexes and no uniqueness
\* constraint, so a MERGE of a node pattern matches against the committed
\* graph and, having matched nothing, creates its node whatever was committed
\* meanwhile; a MERGE of a relationship between bound nodes locks them and is
\* one step.
UpsertTracks == { Track("t1", <<"a1">>, "al1"), Track("t1", <<"a1">>, "") }

NodeKeys == {<<"Track", "t1">>, <<"Artist", "a1">>, <<"Album", "al1">>}
EdgeKeys == {<<"PERFORMED", "a1", "t1">>, <<"CONTAINS", "al1", "t1">>}

\* The track every import stores, its artist, and their keys in the graph.
UpsertTrack == playlist[1]
TrackKey == <<"Track", UpsertTrack.id>>
ArtistKey == <<"Artist", UpsertTrack.artist_ids[1]>>
AlbumKey == <<"Album", UpsertTrack.album_id>>
PerformedKey == <<"PERFORMED", UpsertTrack.artist_ids[1], UpsertTrack.id>>
ContainsKey == <<"CONTAINS", UpsertTrack.album_id, UpsertTrack.id>>

InitUpsert ==
    /\ cfg \in ImportConfigs
    /\ now = 0
    /\ requests = [l \in Limiters |-> <<>>]
    /\ permits = [l \in Limiters |-> 0]
    /\ lockHolder = [l \in Limiters |-> NoTask]
    /\ TaskInit("noclient", NoLimiter)
    /\ NoBatch
    /\ NoClient
    /\ NoYoutube
    /\ NoSimilar
    /\ NoHead
    /\ \E tr \in UpsertTracks : playlist = <<tr>>
    /\ nodes = {}
    /\ edges = {}
    /\ ipc = [r \in Tasks |-> "none"]
    /\ ImportLocalsInit
    /\ copies = [k \in NodeKeys |-> 0]
    /\ links = [e \in EdgeKeys |-> 0]
    /\ upc = [r \in Tasks |-> "idle"]

UpsertFrame ==
    UNCHANGED <<limiterVars, batchVars, clientVars, ytVars, simVars, headVars, playlist,
                ipc, tracks, track_index, apos, processed_artists, imported_tracks,
                imported_artists, log, began>>

\* The nodes and edges of the graph as sets, from its counts.
Support(c, l) ==
    /\ nodes' = {k \in NodeKeys : c[k] > 0}
    /\ edges' = {e \in EdgeKeys : l[e] > 0}

\* store_track is called: its first query is sent.
StoreTrackBegin(r) ==
    /\ upc[r] = "idle"
    /\ upc' = [upc EXCEPT ![r] = "track"]
    /\ UNCHANGED <<copies, links, nodes, edges>>
    /\ UpsertFrame

\* MERGE (t:Track {id: $id}) matches: SET on the nodes matched, and the query
\* is over; or it matches nothing and is to create.
MergeTrackMatch(r) ==
    /\ upc[r] = "track"
    /\ upc' = [upc EXCEPT ![r] = IF copies[TrackKey] > 0 THEN "rel" ELSE "track_create"]
    /\ UNCHANGED <<copies, links, nodes, edges>>
    /\ UpsertFrame

\* MERGE (t:Track {id: $id}) creates its node and commits.
MergeTrackCreate(r) ==
    /\ upc[r] = "track_create"
    /\ copies' = [copies EXCEPT ![TrackKey] = @ + 1]
    /\ links' = links
    /\ Support(copies', links')
    /\ upc' = [upc EXCEPT ![r] = "rel"]
    /\ UpsertFrame

\* MATCH (t:Track {id}), (a:Artist {id}) MERGE (a)-[:PERFORMED]->(t): one edge
\* from every Artist node matched to every Track node matched, where there is
\* none yet. Then the album query if !track.album_id.is_empty(), else Ok(()).
MergePerformed(r) ==
    /\ upc[r] = "rel"
    /\ links' = [links EXCEPT ![PerformedKey] = copies[ArtistKey] * copies[TrackKey]]
    /\ copies' = copies
    /\ Support(copies', links')
    /\ upc' = [upc EXCEPT ![r] = IF UpsertTrack.album_id # "" THEN "album" ELSE "artist"]
    /\ UpsertFrame

\* MERGE (al:Album {id}) matches: then MATCH (t:Track {id}) and
\* MERGE (al)-[:CONTAINS]->(t) from every Album node matched to every Track
\* node; or it matches nothing and is to create.
MergeAlbumMatch(r) ==
    /\ upc[r] = "album"
    /\ IF copies[AlbumKey] > 0
       THEN /\ links' = [links EXCEPT ![ContainsKey] = copies[AlbumKey] * copies[TrackKey]]
            /\ upc' = [upc EXCEPT ![r] = "artist"]
       ELSE /\ links' = links
            /\ upc' = [upc EXCEPT ![r] = "album_create"]
    /\ copies' = copies
    /\ Support(copies', links')
    /\ UpsertFrame

\* MERGE (al:Album {id}) creates its node; MERGE (al)-[:CONTAINS]->(t) then
\* creates an edge from it to every Track node, and the query commits.
MergeAlbumCreate(r) ==
    /\ upc[r] = "album_create"
    /\ copies' = [copies EXCEPT ![AlbumKey] = @ + 1]
    /\ links' = [links EXCEPT ![ContainsKey] = @ + copies[TrackKey]]
    /\ Support(copies', links')
    /\ upc' = [upc EXCEPT ![r] = "artist"]
    /\ UpsertFrame

\* store_artist: MERGE (a:Artist {id: $id}) matches (SET, Ok(())), or matches
\* nothing and is to create.
MergeArtistMatch(r) ==
    /\ upc[r] = "artist"
    /\ upc' = [upc EXCEPT ![r] = IF copies[ArtistKey] > 0 THEN "done" ELSE "artist_create"]
    /\ UNCHANGED <<copies, links, nodes, edges>>
    /\ UpsertFrame

\* MERGE (a:Artist {id: $id}) creates its node and commits: Ok(()).
MergeArtistCreate(r) ==
    /\ upc[r] = "artist_create"
    /\ copies' = [copies EXCEPT ![ArtistKey] = @ + 1]
    /\ links' = links
    /\ Support(copies', links')
    /\ upc' = [upc EXCEPT ![r] = "done"]
    /\ UpsertFrame

\* graph.execute(query).await? is Err: the query wrote nothing, and the import
\* ends.
UpsertErr(r) ==
    /\ upc[r] \in {"track", "track_create", "rel", "album", "album_create", "artist",
                   "artist_create"}
    /\ upc' = [upc EXCEPT ![r] = "err"]
    /\ UNCHANGED <<copies, links, nodes, edges>>
    /\ UpsertFrame

NextUpsert ==
    \E r \in Tasks :
        \/ StoreTrackBegin(r)
        \/ MergeTrackMatch(r)
        \/ MergeTrackCreate(r)
        \/ MergePerformed(r)
        \/ MergeAlbumMatch(r)
        \/ MergeAlbumCreate(r)
        \/ MergeArtistMatch(r)
        \/ MergeArtistCreate(r)
        \/ UpsertErr(r)

SpecUpsert == InitUpsert /\ [][NextUpsert]_vars


\* ------------------------------------------------------------- claims
\* The tasks whose _permit of limiter l is alive.
Holders(l) == {t \in Tasks : permit[t] /\ limiterOf[t] = l}

\* The timestamps of limiter l counted inside the window that ends at instant s.
InWindowBefore(l, s) ==
    {i \in DOMAIN requests[l] :
        requests[l][i] <= s /\ s - requests[l][i] < cfg.window_duration}

\* C1: window enforcement. A call whose operation is in flight was not the
\* (max_requests+1)-th of its window: when it invoked the operation, fewer than
\* max_requests counted calls lay less than window_duration before it.
WindowEnforcement ==
    \A t \in Tasks :
        pc[t] = "operation" =>
            Cardinality(InWindowBefore(limiterOf[t], opStart[t])) < cfg.max_requests

\* C2: per-provider limit under concurrent imports. The provider requests that
\* all imports together completed within the last window_duration, and those
\* they have in flight, number at most max_requests.
ProviderRequestsInWindow ==
    {p \in Limiters \X (1..MaxImportCalls) :
        /\ p[2] <= Len(requests[p[1]])
        /\ now - requests[p[1]][p[2]] < cfg.window_duration}

ImportsShareOneLimiter ==
    \A t, u \in Tasks :
        (limiterOf[t] # NoLimiter /\ limiterOf[u] # NoLimiter) => limiterOf[t] = limiterOf[u]

PerProviderLimitUnderConcurrentImports ==
    Cardinality(ProviderRequestsInWindow)
        + Cardinality({t \in Tasks : pc[t] = "operation"}) <= cfg.max_requests

\* C3: the concurrency budget of a limiter (its free permits and those held)
\* is max(1, min(max_requests / 4, 10)).
ConcurrencyBudgetFloored ==
    \A l \in Limiters :
        (\E t \in Tasks : limiterOf[t] = l) =>
            permits[l] + Cardinality(Holders(l))
                = Max(1, Min(cfg.max_requests \div 4, 10))

\* C4: no deadlock on small limits. With max_requests >= 1, a call that waits
\* for a concurrency slot can get one: a permit is free, or a call in progress
\* holds one and gives it back when it returns.
NoDeadlockOnSmallLimits ==
    cfg.max_requests >= 1 =>
        \A t \in Tasks :
            pc[t] = "acquire" =>
                \/ permits[limiterOf[t]] > 0
                \/ Holders(limiterOf[t]) # {}

\* C5: retry bound. A call invokes its operation at most max_retries + 1 times;
\* it returns Ok right after its first successful invocation; it returns an
\* error exactly when max_retries + 1 invocations failed, and the error is the
\* last one's, whatever its kind.
RetryBound ==
    \A t \in Tasks :
        /\ invoked[t] <= cfg.max_retries + 1
        /\ failed[t] <= invoked[t]
        /\ invoked[t] <= failed[t] + 1
        /\ outcome[t] = "ok" =>
              /\ invoked[t] = failed[t] + 1
              /\ pc[t] \in {"record_lock", "record", "done", "dropped"}
        /\ ret[t] = "Ok" => (outcome[t] = "ok" /\ pc[t] = "done")
        /\ ret[t] \in ErrKinds =>
              /\ failed[t] = cfg.max_retries + 1
              /\ invoked[t] = failed[t]
              /\ ret[t] = outcome[t]
              /\ pc[t] = "done"
        /\ pc[t] = "done" =>
              /\ ret[t] \in {"Ok"} \cup ErrKinds
              /\ (failed[t] = cfg.max_retries + 1) <=> (ret[t] \in ErrKinds)

RetryBoundWitness ==
    \E t, u \in Tasks :
        /\ ret[t] = "status" /\ failed[t] = 3 /\ cfg.max_retries = 2
        /\ ret[u] = "Ok" /\ failed[u] >= 1

\* C6: the delay after failed attempt a is exactly
\* min(initial_backoff * backoff_multiplier^a, max_backoff).
BackoffExact ==
    \A t \in Tasks :
        pc[t] = "backoff" =>
            delay[t] * Pow(cfg.mult_den, attempt[t])
                = Min(cfg.initial_backoff * Pow(cfg.mult_num, attempt[t]),
                      cfg.max_backoff * Pow(cfg.mult_den, attempt[t]))

\* C7: bounded concurrency. The calls that hold a concurrency slot of a limiter
\* never outnumber its budget, and no permit count is negative.
BoundedConcurrency ==
    \A l \in Limiters :
        /\ Cardinality(Holders(l)) <= max_concurrent(cfg)
        /\ permits[l] >= 0
        /\ \A t \in Tasks :
              (limiterOf[t] = l
                 /\ pc[t] \in {"cfg_lock", "cfg_read", "check_lock", "check", "window_wait",
                               "operation", "record_lock", "record", "backoff"})
                  => t \in Holders(l)

BoundedConcurrencyWitness ==
    \E t, u \in Tasks :
        /\ t # u
        /\ limiterOf[t] = limiterOf[u]
        /\ permit[t]
        /\ pc[t] \in {"window_wait", "operation", "backoff"}
        /\ pc[u] = "acquire"
        /\ permits[limiterOf[u]] = 0

\* C8: a call keeps its slot from acquisition to return. A permit comes alive
\* only in acquire; it stays alive while the call checks, waits, runs and backs
\* off; it is given back in the one step in which the call returns Ok or its
\* final error (or in which the call is dropped), one permit per step.
SlotHeldUntilReturn ==
    [][\A t \in Tasks :
          /\ (permit[t] /\ ~permit'[t]) =>
                /\ pc'[t] \in {"done", "dropped"}
                /\ pc'[t] = "done" => ret'[t] \in {"Ok"} \cup ErrKinds
                /\ permits'[limiterOf[t]] = permits[limiterOf[t]] + 1
          /\ (~permit[t] /\ permit'[t]) =>
                /\ pc[t] = "acquire"
                /\ permits'[limiterOf[t]] = permits[limiterOf[t]] - 1
          /\ (pc[t] \in {"window_wait", "operation", "backoff", "check_lock", "check",
                         "record_lock", "record"}) => permit[t]
          /\ (permit[t] = permit'[t] /\ limiterOf[t] # NoLimiter
                /\ \A u \in Tasks : permit[u] = permit'[u])
                => permits'[limiterOf[t]] = permits[limiterOf[t]]
      ]_vars

SlotHeldUntilReturnWitness ==
    \E t \in Tasks :
        /\ pc[t] = "check_lock"
        /\ attempt[t] = 2
        /\ permit[t]
        /\ permits[limiterOf[t]] = max_concurrent(cfg) - 1

\* C9: abandonment releases the slot. Every permit of a limiter is either free
\* or held by a call in progress; once no call is in progress, dropped calls
\* included, the free permits are the full budget again.
AbandonmentReleasesSlot ==
    \A l \in Limiters :
        (\E t \in Tasks : limiterOf[t] = l) =>
            /\ permits[l] + Cardinality(Holders(l)) = max_concurrent(cfg)
            /\ (\A t \in Tasks : limiterOf[t] = l => pc[t] \notin InProgress)
                  => permits[l] = max_concurrent(cfg)
            /\ \A t \in Tasks : pc[t] = "dropped" => ~permit[t]

AbandonmentReleasesSlotWitness ==
    /\ max_concurrent(cfg) >= 1
    /\ \E t \in Tasks : pc[t] = "dropped" /\ invoked[t] >= 1 /\ outcome[t] # "ok"
    /\ \A t \in Tasks : pc[t] \notin InProgress
    /\ permits[SharedLimiter] = max_concurrent(cfg)

\* C10: no sleeping inside the critical section. The tracker changes only in a
\* step of the task that holds its lock; the blocks that read or change it run
\* with the lock held; and a task that holds the lock is in one of these three
\* blocks, never in a window wait, a backoff wait, its operation or any other
\* await.
LockedOnlyInBlocks ==
    /\ \A l \in Limiters :
          lockHolder[l] # NoTask =>
              /\ limiterOf[lockHolder[l]] = l
              /\ pc[lockHolder[l]] \in {"cfg_read", "check", "record"}
    /\ \A t \in Tasks :
          pc[t] \in {"cfg_read", "check", "record"} => lockHolder[limiterOf[t]] = t

NoSleepInCriticalSection ==
    [][/\ LockedOnlyInBlocks
       /\ LockedOnlyInBlocks'
       /\ \A l \in Limiters :
             (requests'[l] # requests[l] /\ \E t \in Tasks : limiterOf[t] = l) =>
                 /\ lockHolder[l] # NoTask
                 /\ pc[lockHolder[l]] \in {"check", "record"}
                 /\ pc'[lockHolder[l]] # pc[lockHolder[l]]
      ]_vars

NoSleepInCriticalSectionWitness ==
    \E t, u \in Tasks :
        /\ t # u
        /\ limiterOf[t] = limiterOf[u]
        /\ pc[t] = "window_wait"
        /\ now < wake[t]
        /\ lockHolder[limiterOf[t]] = u
        /\ pc[u] = "check"

\* The queue q is what is left of the queue p after entries were popped
\* from its front.
IsSuffix(q, p) ==
    /\ Len(q) <= Len(p)
    /\ q = SubSeq(p, Len(p) - Len(q) + 1, Len(p))

\* C11: recording. The tracker of a limiter grows only in the step in which a
\* call returns Ok, after its operation completed, by the one timestamp now at
\* its end; a step in which an attempt fails, and the return of a call whose
\* attempts all failed, leave it as it is; any other change is a purge.
RecordingOnSuccess ==
    [][\A l \in Limiters :
          /\ \A t \in Tasks :
                (limiterOf[t] = l /\ ret[t] # "Ok" /\ ret'[t] = "Ok") =>
                    /\ outcome[t] = "ok"
                    /\ pc[t] = "record"
                    /\ requests'[l] = Append(requests[l], now)
          /\ Len(requests'[l]) > Len(requests[l]) =>
                /\ Len(requests'[l]) = Len(requests[l]) + 1
                /\ \E t \in Tasks :
                      limiterOf[t] = l /\ pc[t] = "record" /\ ret'[t] = "Ok"
          /\ \A t \in Tasks :
                (limiterOf[t] = l
                   /\ (failed'[t] > failed[t] \/ (ret[t] = "none" /\ ret'[t] \in ErrKinds)))
                    => requests'[l] = requests[l]
          /\ Len(requests'[l]) <= Len(requests[l]) => IsSuffix(requests'[l], requests[l])
      ]_vars

RecordingOnSuccessWitness ==
    \E t, u \in Tasks :
        /\ ret[t] = "Ok"
        /\ ret[u] \in ErrKinds
        /\ failed[u] >= 2
        /\ Len(requests[SharedLimiter]) >= 2
        /\ requests[SharedLimiter][Len(requests[SharedLimiter])] >= 1
        /\ requests[SharedLimiter][1] = 0

\* C12: lazy purge. In the step of an admission check the entries older than
\* window_duration at the instant of the check, and only those, leave the
\* tracker, so that none is left in it; and the call waits exactly when the
\* purged queue holds max_requests entries or more.
LazyPurge ==
    [][\A t \in Tasks :
          (pc[t] = "check" /\ pc'[t] # "check") =>
              LET p == requests[limiterOf[t]]
                  q == requests'[limiterOf[t]]
              IN  /\ IsSuffix(q, p)
                  /\ \A i \in DOMAIN q : now - q[i] <= cfg.window_duration
                  /\ \A i \in 1..(Len(p) - Len(q)) : now - p[i] > cfg.window_duration
                  /\ pc'[t] \in {"window_wait", "operation"}
                  /\ pc'[t] = "window_wait" <=> Len(q) >= cfg.max_requests
      ]_vars

LazyPurgeWitness ==
    \E t, u \in Tasks :
        /\ t # u
        /\ calls = 2
        /\ ret[u] = "Ok"
        /\ pc[t] = "operation"
        /\ opStart[t] = now
        /\ requests[SharedLimiter] = <<>>

\* C13: one result per operation, in input order. Whatever the number of
\* operations, batch_size >= 1 and the order the operations complete in, the
\* results collected so far are the outcomes of the first operations, result i
\* that of operation i, and execute_batch returns with one result per operation.
BatchResultsInOrder ==
    /\ batch_size >= 1
    /\ Len(results) <= Len(batch_requests)
    /\ \A i \in DOMAIN results : results[i] = OutcomeOf(batch_requests[i])
    /\ bpc = "returned" => Len(results) = Len(batch_requests)

\* A batch returned whose second operation succeeded at instant 0, before the
\* first one, in the same chunk, had spent the backoff before its last attempt.
BatchResultsInOrderWitness ==
    /\ bpc = "returned"
    /\ batch_size = 2
    /\ results = <<"network", "Ok">>
    /\ requests[SharedLimiter] = <<0>>
    /\ cfg.max_retries >= 1
    /\ cfg.initial_backoff >= 1

\* C14: batch failure isolation. The step in which an operation fails for good
\* changes nothing of any other operation of its chunk and does not end the
\* batch; the operations of later chunks still run; a returned batch holds Ok
\* for every operation that succeeds and the error of every one that fails.
BatchFailureIsolation ==
    [][/\ \A t \in Tasks :
             (bpc # "none" /\ ret[t] = "none" /\ ret'[t] \in ErrKinds) =>
                 /\ bpc' = "join"
                 /\ results' = results
                 /\ chunkStart' = chunkStart
                 /\ \A u \in Tasks \ {t} :
                       /\ pc'[u] = pc[u]
                       /\ ret'[u] = ret[u]
                       /\ outcome'[u] = outcome[u]
                       /\ attempt'[u] = attempt[u]
                       /\ permit'[u] = permit[u]
       /\ \A t \in Tasks : bpc' # "none" => pc'[t] # "dropped"
       /\ bpc' = "returned" =>
             \A i \in DOMAIN batch_requests :
                 /\ i \in DOMAIN results'
                 /\ batch_requests[i] = "ok" <=> results'[i] = "Ok"
                 /\ batch_requests[i] \in ErrKinds => results'[i] = batch_requests[i]
      ]_vars

\* A batch returned in which operations of the first chunk failed and their
\* sibling and the operation of the second chunk succeeded.
BatchFailureIsolationWitness ==
    /\ bpc = "returned"
    /\ batch_size = 2
    /\ batch_requests = <<"status", "ok", "ok">>
    /\ results = <<"status", "Ok", "Ok">>
    /\ Len(requests[SharedLimiter]) = 2

\* What the log of import r holds: its entries of one kind, the nodes and the
\* edges it upserted.
Entries(r, what) == {i \in DOMAIN log[r] : log[r][i].what = what}
NodesWritten(r) ==
    {<<"Track", log[r][i].id>> : i \in Entries(r, "track")}
      \cup {<<"Artist", log[r][i].id>> : i \in Entries(r, "artist")}
      \cup {<<"Album", log[r][i].id>> : i \in Entries(r, "album")}
EdgesWritten(r) ==
    {<<"PERFORMED", log[r][i].id, log[r][i].to>> : i \in Entries(r, "performed")}
      \cup {<<"CONTAINS", log[r][i].id, log[r][i].to>> : i \in Entries(r, "album")}

\* C15: idempotent upsert. When an import succeeded alone on the empty graph,
\* a second import of the same playlist began after it and succeeded too, and
\* no fetch of either failed, the graph has as many nodes and as many edges as
\* the first import left.
IdempotentUpsert ==
    \A r1, r2 \in Tasks :
        (/\ r1 # r2
         /\ ipc[r1] = "ok" /\ ipc[r2] = "ok"
         /\ began[r1] = {} /\ r1 \in began[r2]
         /\ \A u \in Tasks \ {r1, r2} : ipc[u] = "idle"
         /\ Entries(r1, "fetch_err") = {} /\ Entries(r2, "fetch_err") = {})
        => /\ Cardinality(nodes) = Cardinality(NodesWritten(r1))
           /\ Cardinality(edges) = Cardinality(EdgesWritten(r1))

\* C16: performer edges after import. Once an import has succeeded, every
\* track of it has the PERFORMED edge from each of its artist ids that the
\* import fetched and stored.
PerformerEdgesAfterImport ==
    \A r \in Tasks :
        ipc[r] = "ok" =>
            \A k \in DOMAIN tracks[r] :
                \A i \in DOMAIN tracks[r][k].artist_ids :
                    tracks[r][k].artist_ids[i] \in processed_artists[r] =>
                        <<"PERFORMED", tracks[r][k].artist_ids[i], tracks[r][k].id>>
                            \in edges

\* C17: artist dedup. No import fetches one artist id twice, whether its first
\* fetch succeeded or failed.
ArtistFetchedOnce ==
    \A r \in Tasks :
        \A i, j \in Entries(r, "fetch_ok") \cup Entries(r, "fetch_err") :
            log[r][i].id = log[r][j].id => i = j

\* The artist ids import r stored, found not yet stored, and failed to fetch,
\* while it processed its track number k.
StoredAt(r, k) == {log[r][i].id : i \in {j \in Entries(r, "artist") : log[r][j].k = k}}
UnseenAt(r, k) ==
    {tracks[r][k].artist_ids[i] : i \in DOMAIN tracks[r][k].artist_ids}
        \ UNION {StoredAt(r, j) : j \in 1..(k - 1)}
FailedAt(r, k) ==
    {log[r][i].id : i \in {j \in Entries(r, "fetch_err") : log[r][j].k = k}}
        \ StoredAt(r, k)

\* C18: artist fetch failure isolation. An import never ends in an error on a
\* failed artist fetch; when it succeeds although fetches failed, every track is
\* stored and counted, and of the N artist ids a track brought, less the ones
\* whose fetch failed, each is stored and counted: N - 1 when one failed.
ArtistFetchFailureIsolation ==
    \A r \in Tasks :
        /\ ipc[r] = "bad_request" => log[r] = <<>>
        /\ ipc[r] = "storage_error" =>
              log[r] # <<>> /\ log[r][Len(log[r])].what = "store_err"
        /\ ipc[r] = "ok" =>
              /\ imported_tracks[r] = Len(tracks[r])
              /\ \A k \in DOMAIN tracks[r] :
                    /\ <<"Track", tracks[r][k].id>> \in nodes
                    /\ FailedAt(r, k) \subseteq UnseenAt(r, k)
                    /\ StoredAt(r, k) = UnseenAt(r, k) \ FailedAt(r, k)
                    /\ Cardinality(StoredAt(r, k))
                          = Cardinality(UnseenAt(r, k)) - Cardinality(FailedAt(r, k))
                    /\ \A a \in StoredAt(r, k) : <<"Artist", a>> \in nodes
              /\ imported_artists[r] = Cardinality(Entries(r, "artist"))
              /\ imported_artists[r] = Cardinality(processed_artists[r])

\* An import that succeeded on a track of two performers of which one fetch
\* failed: both tracks and one artist counted.
ArtistFetchFailureIsolationWitness ==
    \E r \in Tasks :
        /\ ipc[r] = "ok"
        /\ Len(tracks[r]) = 2
        /\ UnseenAt(r, 1) = {"a1", "a2"}
        /\ FailedAt(r, 1) = {"a2"}
        /\ StoredAt(r, 1) = {"a1"}
        /\ imported_tracks[r] = 2
        /\ imported_artists[r] = 1

\* C19: import ordering. The track upserts of an import come in the order of
\* its tracks, each before everything else the import does for that track and
\* after everything it does for the tracks before; when track k + 1 is upserted,
\* track k has been, and each artist id of track k has been stored, by then or
\* for an earlier track, or its fetch for track k has failed.
ImportOrdering ==
    \A r \in Tasks :
        \A i \in Entries(r, "track") :
            LET k == log[r][i].k IN
            /\ k \in DOMAIN tracks[r]
            /\ log[r][i].id = tracks[r][k].id
            /\ \A j \in 1..(i - 1) : log[r][j].k < k
            /\ \A j \in (i + 1)..Len(log[r]) : log[r][j].k >= k
            /\ k > 1 =>
                  /\ \E j \in 1..(i - 1) : log[r][j].what = "track" /\ log[r][j].k = k - 1
                  /\ \A a \in {tracks[r][k - 1].artist_ids[n] :
                                  n \in DOMAIN tracks[r][k - 1].artist_ids} :
                        \E j \in 1..(i - 1) :
                            /\ log[r][j].id = a
                            /\ \/ log[r][j].what = "artist"
                               \/ log[r][j].what = "fetch_err" /\ log[r][j].k = k - 1

\* An import that upserted its second track after it stored one performer of
\* the first and failed to fetch the other.
ImportOrderingWitness ==
    \E r \in Tasks :
        \E i \in Entries(r, "track") :
            /\ log[r][i].k = 2
            /\ \E j \in 1..(i - 1) : log[r][j].what = "artist" /\ log[r][j].k = 1
            /\ \E j \in 1..(i - 1) : log[r][j].what = "fetch_err" /\ log[r][j].k = 1

\* C20: a storage failure is fatal, without rollback. An import in which an
\* upsert failed has returned the storage error and did nothing after the
\* failure, no fetch and no write; and what any import upserted is in the graph,
\* whatever failed later.
StorageFailureFatal ==
    \A r \in Tasks :
        /\ \A i \in Entries(r, "store_err") :
              i = Len(log[r]) /\ ipc[r] = "storage_error"
        /\ ipc[r] = "storage_error" => Entries(r, "store_err") # {}
        /\ NodesWritten(r) \subseteq nodes
        /\ EdgesWritten(r) \subseteq edges

\* An import whose upsert of its second track failed after a track, an album
\* and an artist were upserted.
StorageFailureFatalWitness ==
    \E r \in Tasks :
        /\ ipc[r] = "storage_error"
        /\ track_index[r] = 2
        /\ log[r][Len(log[r])].id = "t2"
        /\ {<<"Track", "t1">>, <<"Album", "al1">>, <<"Artist", "a1">>} \subseteq NodesWritten(r)
        /\ <<"CONTAINS", "al1", "t1">> \in EdgesWritten(r)

\* C21: a failed initial track fetch is fatal. An import whose
\* get_playlist_tracks failed has returned its error with no track kept, nothing
\* counted, no artist fetched and no graph write made; when no other import has
\* written either, the graph is as empty as it began.
FailedTrackFetchFatal ==
    \A r \in Tasks :
        ipc[r] = "bad_request" =>
            /\ tracks[r] = <<>>
            /\ imported_tracks[r] = 0 /\ imported_artists[r] = 0
            /\ processed_artists[r] = {}
            /\ NodesWritten(r) = {} /\ EdgesWritten(r) = {}
            /\ Entries(r, "fetch_ok") \cup Entries(r, "fetch_err") = {}
            /\ (\A u \in Tasks \ {r} : ipc[u] \in {"idle", "bad_request"})
                  => nodes = {} /\ edges = {}

\* The fetch of a playlist of two tracks failed for the only import that ran.
FailedTrackFetchFatalWitness ==
    \E r \in Tasks :
        /\ ipc[r] = "bad_request"
        /\ Len(playlist) = 2
        /\ \A u \in Tasks \ {r} : ipc[u] = "idle"
        /\ nodes = {}

\* C30: the import counters report the work processed, not the change of the
\* graph. An import that succeeded counts in imported_tracks the tracks its
\* fetch returned and in imported_artists the distinct artist ids it fetched
\* and stored, whatever the graph held before; an import that began after
\* another had succeeded reports the same counts as the first when no artist
\* fetch failed in either.
ImportCountersProcessed ==
    /\ \A r \in Tasks :
          ipc[r] = "ok" =>
              /\ imported_tracks[r] = Len(tracks[r])
              /\ imported_artists[r]
                    = Cardinality({log[r][i].id : i \in Entries(r, "artist")})
    /\ \A r1, r2 \in Tasks :
          (/\ ipc[r1] = "ok" /\ ipc[r2] = "ok"
           /\ r1 \in began[r2]
           /\ Entries(r1, "fetch_err") = {} /\ Entries(r2, "fetch_err") = {})
          => /\ imported_tracks[r2] = imported_tracks[r1]
             /\ imported_artists[r2] = imported_artists[r1]

\* A second import of the playlist of two tracks and two artists succeeded on
\* the graph the first had filled, and reports two tracks and two artists.
ImportCountersProcessedWitness ==
    \E r1, r2 \in Tasks :
        /\ ipc[r1] = "ok" /\ ipc[r2] = "ok"
        /\ r1 \in began[r2]
        /\ Len(tracks[r2]) = 2
        /\ NodesWritten(r2) = NodesWritten(r1)
        /\ imported_tracks[r2] = 2
        /\ imported_artists[r2] = 2

\* C22: a non-success status is retried. When get_playlist_tracks or get_artist
\* returns its error on a response with a non-success status, execute has
\* counted the response as a failed attempt and has made all its attempts of
\* the request, max_retries + 1 of them, before.
StatusRetried ==
    (/\ cop \in {"playlist_tracks", "artist"}
     /\ cpc = "err"
     /\ reply = "status")
    => /\ invoked[Caller] = cfg.max_retries + 1
       /\ failed[Caller] = cfg.max_retries + 1
       /\ ret[Caller] # "Ok"

\* The ids of a sequence of items or tracks, and the items of the playlist that
\* are tracks with their required fields.
Ids(q) == [i \in DOMAIN q |-> q[i].id]
HasTrack(it) == it.kind = "track"

\* C23: audio-feature degradation. A failed or missing audio-feature fetch
\* never removes a track: when get_playlist_tracks has returned its tracks,
\* they are the tracks of the playlist that have their required fields, each
\* one of them, in the order of the playlist.
AudioFeatureDegradation ==
    (cop = "playlist_tracks" /\ cpc = "ok")
    => Ids(fetched) = Ids(SelectSeq(catalog, HasTrack))

\* C24: pagination terminates on the first empty page. get_playlist_tracks asks
\* for the pages at the offsets 0, limit, 2 * limit, ... in this order; each
\* page it went on from had an item; and when it has returned its tracks, the
\* last page it asked for is the first one without any item, whatever limit is.
PaginationTermination ==
    cop = "playlist_tracks" =>
        /\ \A i \in DOMAIN pages : pages[i] = (i - 1) * limit
        /\ \A i \in 1..(Len(pages) - 1) : PageItems(pages[i]) # <<>>
        /\ cpc = "ok" =>
              /\ PageItems(pages[Len(pages)]) = <<>>
              /\ Len(pages) = (Len(catalog) + limit - 1) \div limit + 1

\* A playlist of three items fetched by pages of one: four pages, the last
\* one empty.
PaginationTerminationWitness ==
    /\ cop = "playlist_tracks"
    /\ cpc = "ok"
    /\ limit = 1
    /\ Len(catalog) = 3
    /\ pages = <<0, 1, 2, 3>>

\* The places in the playlist of the items parse_track was Ok for.
Parsed == {n \in DOMAIN catalog : HasTrack(catalog[n]) /\ n \notin failedFeat}

\* C25: a parse failure is local to its item. get_playlist_tracks is never
\* aborted on an item, by an error or by a panic: when it is Err, a page
\* request failed; when it has returned its tracks, it has asked for every
\* page of the playlist, and the tracks are the items parse_track was Ok for,
\* each of them once, in the order of the playlist.
ParseFailureLocal ==
    cop = "playlist_tracks" =>
        /\ cpc # "panic"
        /\ cpc = "err" => item = 0
        /\ cpc = "ok" =>
              /\ pages[Len(pages)] >= Len(catalog)
              /\ Len(fetched) = Cardinality(Parsed)
              /\ \A k \in DOMAIN fetched :
                    \E n \in Parsed :
                        /\ Cardinality({m \in Parsed : m <= n}) = k
                        /\ fetched[k].id = catalog[n].id

\* C26: get_recommendations goes through the rate limiter. While the request
\* of get_recommendations to the provider is in flight, the client is in an
\* execute call of its RateLimiter, at its operation, holding one of its
\* permits; and once the provider has answered it well, the tracker of the
\* limiter holds the time of a request.
RecommendationsRateLimited ==
    /\ (cop = "recommendations" /\ cpc = "direct")
          => /\ pc[Caller] = "operation"
             /\ permit[Caller]
             /\ permits[SharedLimiter] < max_concurrent(cfg)
    /\ (cop = "recommendations" /\ reply = "success")
          => requests[SharedLimiter] # <<>>

\* The track names up to number n that ended one way, or did not.
Added(n) == {k \in 1..n : youtcome[k] = "added"}
NotAdded(n) == {k \in 1..n : youtcome[k] # "added"}

\* C27: playlist-build isolation and accounting. A failed search or add ends
\* no call: the call is Err only when the playlist was not created, before any
\* track name. Each track name dealt with so far is counted once, in
\* tracks_added when its video was found and added, in tracks_not_found
\* otherwise, in the order of track_names; and the playlist returned has dealt
\* with every track name, so its two counts add up to their number.
PlaylistBuildAccounting ==
    LET n == Len(youtcome) IN
    /\ ypc = "err" => n = 0
    /\ n <= Len(track_names)
    /\ tracks_added = Cardinality(Added(n))
    /\ Len(tracks_not_found) = Cardinality(NotAdded(n))
    /\ \A j \in DOMAIN tracks_not_found :
          \E k \in NotAdded(n) :
              /\ Cardinality({m \in NotAdded(n) : m <= k}) = j
              /\ tracks_not_found[j] = track_names[k]
    /\ ypc = "ok" =>
          /\ n = Len(track_names)
          /\ tracks_added + Len(tracks_not_found) = Len(track_names)

\* Three track names, the search of the second failed: two added, the second
\* alone not found.
PlaylistBuildAccountingWitness ==
    /\ ypc = "ok"
    /\ track_names = <<"q1", "q2", "q1">>
    /\ youtcome = <<"added", "search_err", "added">>
    /\ tracks_added = 2
    /\ tracks_not_found = <<"q2">>

\* C28: seed exclusion. No row of the result of get_similar_tracks is a track
\* whose id is among the seed ids, with one seed and with more.
SeedExclusion ==
    spc = "returned" => \A i \in DOMAIN similar : similar[i] \notin seed_ids

\* C29: similarity ordering. get_similar_tracks returns at most limit tracks,
\* in non-decreasing order of their score, and no track of the graph that is
\* no seed and is left out has a score strictly lower than a track returned.
SimilarityOrdering ==
    spc = "returned" =>
        /\ Len(similar) <= sim_limit
        /\ \A i, j \in DOMAIN similar : i < j => ScoreLeq(similar[i], similar[j])
        /\ \A c \in Scored \ seed_ids :
              (\A i \in DOMAIN similar : similar[i] # c)
                  => \A i \in DOMAIN similar : ~ScoreLess(c, similar[i])

\* C31: credential selection. With the access token supplied by the
\* environment the import makes no credential exchange and uses that token;
\* without it the import makes one exchange and uses its token; no playlist
\* fetch is awaited without a token; and when the exchange has failed the
\* import has returned Unauthorized with no track fetched and no graph write.
CredentialSelection ==
    /\ env_token => exchanges = 0 /\ access_token \in {"none", "env"}
    /\ ~env_token =>
          /\ access_token \in {"none", "exchanged"}
          /\ access_token = "exchanged" => exchanges = 1
    /\ ipc[Caller] \notin {"idle", "exchange", "unauthorized", "bad_request"}
          => access_token # "none"
    /\ ipc[Caller] = "unauthorized" =>
          /\ ~env_token
          /\ exchanges = 1
          /\ access_token = "none"
          /\ tracks[Caller] = <<>> /\ log[Caller] = <<>>
          /\ nodes = {} /\ edges = {}

\* An import of a playlist of two tracks returned Unauthorized on its failed
\* exchange.
CredentialSelectionWitness ==
    /\ ipc[Caller] = "unauthorized"
    /\ ~env_token
    /\ Len(playlist) = 2
    /\ exchanges = 1

\* The place of the last "/" of a string, 0 without one.
LastSlash(u) ==
    LET at == {i \in DOMAIN u : u[i] = "/"} IN
    IF at = {} THEN 0 ELSE CHOOSE i \in at : \A k \in at : k <= i

\* C32: identifier resolution. The playlist id of an import is the part of the
\* input after its last "/" up to, and without, the first "?" of that part;
\* when that is empty the import has returned the bad-request error with no
\* credential exchange, no track fetched and no graph write.
IdentifierResolution ==
    LET u == playlist_url
        i == LastSlash(u) + 1
    IN  ipc[Caller] # "idle" =>
            IF i <= Len(u) /\ u[i] # "?"
            THEN \E j \in i..Len(u) :
                    /\ playlist_id = SubSeq(u, i, j)
                    /\ \A k \in i..j : u[k] # "?"
                    /\ j = Len(u) \/ u[j + 1] = "?"
            ELSE /\ playlist_id = <<>>
                 /\ ipc[Caller] = "bad_request"
                 /\ exchanges = 0 /\ access_token = "none"
                 /\ tracks[Caller] = <<>> /\ log[Caller] = <<>>
                 /\ nodes = {} /\ edges = {}

\* The id p of the input "/p?p" was resolved and its track fetch is awaited.
IdentifierResolutionWitness ==
    /\ playlist_url = <<"/", "p", "?", "p">>
    /\ playlist_id = <<"p">>
    /\ ipc[Caller] = "fetch_tracks"

\* C36: the graph only grows. No step of an import removes a node or an edge,
\* and get_similar_tracks leaves the nodes, the edges and the features of the
\* graph as they are.
GraphOnlyGrows ==
    [][/\ nodes \subseteq nodes'
       /\ edges \subseteq edges'
       /\ features' = features
       /\ spc' # spc => nodes' = nodes /\ edges' = edges]_vars

\* get_similar_tracks has returned on the graph of an import that stored a
\* track, its album and an artist.
GraphOnlyGrowsWitness ==
    /\ spc = "returned"
    /\ ipc[Caller] = "ok"
    /\ {<<"Track", "t1">>, <<"Album", "al1">>, <<"Artist", "a1">>} \subseteq nodes
    /\ <<"CONTAINS", "al1", "t1">> \in edges

\* C40: the wait of an admission check is bounded. The timestamps of a queue
\* are non-decreasing and none is later than the clock, so the wait that
\* check_rate_limit decides on, after its purge, is never negative (the
\* subtraction does not underflow) and never longer than window_duration; a
\* task sleeping on that decision holds such a wait.
WaitBounded ==
    /\ \A l \in Limiters :
          /\ \A i, j \in DOMAIN requests[l] : i <= j => requests[l][i] <= requests[l][j]
          /\ \A i \in DOMAIN requests[l] : requests[l][i] <= now
          /\ LET r == check_rate_limit(requests[l], now, cfg) IN
             /\ 0 <= r.delay
             /\ r.delay <= cfg.window_duration
    /\ \A t \in Tasks :
          pc[t] = "window_wait" =>
              /\ 0 <= delay[t]
              /\ delay[t] <= cfg.window_duration

\* A check decided on a wait strictly between zero and the window, on a queue
\* at its limit whose oldest entry lies in the past.
WaitBoundedWitness ==
    \E t \in Tasks :
        /\ pc[t] = "window_wait"
        /\ 0 < delay[t]
        /\ delay[t] < cfg.window_duration
        /\ Len(requests[limiterOf[t]]) >= cfg.max_requests
        /\ Head(requests[limiterOf[t]]) < now

\* C37: chunk sequencing of execute_batch. An operation enters execute only
\* while its chunk is joined, when results holds the final result of every
\* operation of the chunks before it (so after their retries); the chunk is
\* left only when each of its operations has returned; and the pause follows a
\* chunk exactly when operations remain after it, so never the last chunk.
ChunkSequencing ==
    [][/\ \A t \in Tasks :
             (pc[t] = "idle" /\ pc'[t] # "idle") =>
                 /\ bpc = "join"
                 /\ t <= ChunkLen
                 /\ Len(results) = chunkStart
                 /\ \A u \in Tasks : u > ChunkLen => pc[u] = "idle"
       /\ (bpc = "join" /\ bpc' # "join") =>
             /\ \A t \in 1..ChunkLen : pc[t] = "done"
             /\ Len(results') = chunkStart'
             /\ bpc' = "pause" <=> chunkStart' < Len(batch_requests)
             /\ bpc' = "pause" => bwake' = now + BatchPause
       /\ (bpc = "pause" /\ bpc' # "pause") => now >= bwake /\ bpc' = "loop"
       /\ bpc' = "pause" => bpc \in {"join", "pause"}
      ]_vars

\* An operation of the second chunk runs after the pause, the first chunk
\* having ended on an operation that failed after its retry.
ChunkSequencingWitness ==
    /\ bpc = "join"
    /\ chunkStart > 0
    /\ now >= BatchPause
    /\ \E i \in 1..chunkStart : results[i] \in ErrKinds
    /\ \E t \in Tasks : pc[t] = "operation"

\* C39: the pause between the batches of create_playlist_from_tracks. A pause
\* is taken after a batch exactly when a further batch remains: none follows
\* the last track name, and when the call returns Ok one pause was taken after
\* every batch that had another one behind it.
PauseBetweenBatches ==
    /\ \A i \in DOMAIN ypauses : ypauses[i] < Len(track_names)
    /\ ypc = "ok" =>
          {ypauses[i] : i \in DOMAIN ypauses} =
              {k \in 1..(Len(track_names) - 1) : k % YtBatchSize = 0}

\* C38: the size of the result of get_similar_tracks. With a seed in the graph
\* the call returns as many tracks as limit allows of the Track nodes that are
\* no seeds: min(limit, number of non-seed tracks), none being dropped when its
\* performers and album are looked up.
ExactResultCount ==
    (spc = "returned" /\ seed_ids \cap TrackIdsOfGraph # {}) =>
        Len(similar) = Min(sim_limit, Cardinality(TrackIdsOfGraph \ seed_ids))

\* C35: get_artist fails loudly. The call is Err when execute returned its
\* error after the retries, when the status of the response is no success,
\* when the body is no JSON, and when the body lacks the name or the id of the
\* artist; it is Ok only on a successful response that carries both, so no
\* Artist is returned with a defaulted name or id.
ArtistFailsLoudly ==
    (cop = "artist" /\ cpc \in {"ok", "err"}) =>
        /\ cpc = "ok" <=> reply = "artist"
        /\ reply = "artist" => ret[Caller] = "Ok"
        /\ ret[Caller] # "Ok" => cpc = "err" /\ reply = "none"
        /\ cpc = "err" =>
              reply \in {"none", "status", "malformed", "noname", "noid"}

\* get_artist returned Err on a successful response whose body has no id, after
\* a first attempt that failed in the network and was retried.
ArtistFailsLoudlyWitness ==
    /\ cop = "artist"
    /\ cpc = "err"
    /\ reply = "noid"
    /\ ret[Caller] = "Ok"
    /\ invoked[Caller] >= 2

\* C33: no duplicates under any interleaving. Whatever upserts sequential or
\* concurrent imports have made, the graph holds at most one node of a label
\* with an id and at most one edge of a type between two ids.
NoDuplicates ==
    /\ \A k \in DOMAIN copies : copies[k] <= 1
    /\ \A e \in DOMAIN links : links[e] <= 1

\* C34: the album of a track. When the imports of a track have returned Ok,
\* a track with the empty album id has no Album node and no CONTAINS edge, and
\* a track with an album id has exactly one CONTAINS edge, from the Album with
\* that id.
AlbumLinking ==
    (\A r \in Tasks : upc[r] = "done") =>
        IF UpsertTrack.album_id = ""
        THEN \A k \in DOMAIN copies : k[1] = "Album" => copies[k] = 0
        ELSE links[ContainsKey] = 1

=============================================================================
